---- MODULE Spec2Model ----
(***************************************************************************)
(* End-to-end encrypted messaging client of webrtc-messenger:              *)
(*   lib/crypto.ts     X25519 + XSalsa20-Poly1305 box (payload version 2)  *)
(*   lib/keyStore.ts   IndexedDB key store, namespaced by the logged-in    *)
(*                     user                                                *)
(*   lib/useSocket.ts  the useWebsocket hook: key loading, the receive     *)
(*                     handlers, sendMessage and sendDirectMessage         *)
(*   lib/crypto-test.ts the test functions that exercise the engine        *)
(*   lib/api.ts        keysApi, the requests to the key directory          *)
(*   app/e2e-test      the page that checks, sets up and clears the keys   *)
(*   the login page (handleSubmit, setupE2EEncryption), handleLogout of    *)
(*   the chat page, and the RSA-OAEP + AES-GCM client of payload version 1 *)
(*                                                                         *)
(* Every device is named after the user who owns it; a hook, a key store   *)
(* and a local storage are indexed by the device, and authStorage tells    *)
(* who is logged in on it.                                                 *)
(***************************************************************************)
EXTENDS Integers, Sequences, FiniteSets, TLC

(***************************************************************************)
(* Bounds of the model.                                                    *)
(***************************************************************************)
\* sendMessage / sendDirectMessage calls made in one behaviour
MaxCalls == 1
\* envelopes the relay delivers to the hooks in one behaviour
MaxReceives == 2
\* of these, the envelopes that come from a peer outside the model
MaxForeign == 1
\* key pairs generateKeyPair hands out in one behaviour
MaxKeyPairs == 2
\* 'connect' events of the hooks in one behaviour
MaxConnects == 1
\* 'peer_connected' events of the hooks in one behaviour
MaxPeerEvents == 1
\* sendDirectMessage calls made in one behaviour where their order is observed
MaxSends == 2

(***************************************************************************)
(* Program constants.                                                      *)
(***************************************************************************)
ENCRYPTION_VERSION == 2
\* nacl.box.publicKeyLength / secretKeyLength and nacl.box.nonceLength
KEY_LENGTH == 32
NONCE_LENGTH == 24

Users == {"alice", "bob"}
\* a peer that is no local user: the origin of the envelopes the relay
\* delivers that no hook of the model has sent
Stranger == "mallory"

(***************************************************************************)
(* Values.  A JavaScript string is a record tagged by what it holds, so    *)
(* that text, base64 text and JSON text stay apart; a byte array is a      *)
(* record tagged by its content.  Functions that may throw return Ok(v)    *)
(* or Err(e).                                                              *)
(***************************************************************************)
Ok(v) == [ok |-> TRUE, val |-> v]
Err(e) == [ok |-> FALSE, err |-> e]

Text(cs) == [enc |-> "text", chars |-> cs]
Undefined == [enc |-> "undefined"]

\* the characters of the messages of the model, and their UTF-8 encodings
Chars == {"h", "i", " ", "eacute"}
Utf8Of(c) ==
    CASE c = "h" -> <<104>>
      [] c = "i" -> <<105>>
      [] c = " " -> <<32>>
      [] c = "eacute" -> <<195, 169>>

RECURSIVE Utf8Encode(_)
Utf8Encode(cs) ==
    IF cs = <<>> THEN <<>> ELSE Utf8Of(Head(cs)) \o Utf8Encode(Tail(cs))

\* the decoder: Ok(characters), or Err on a byte sequence that is no UTF-8
RECURSIVE Utf8Decode(_)
Utf8Decode(bs) ==
    IF bs = <<>> THEN Ok(<<>>)
    ELSE LET b == Head(bs) IN
         IF b \in {104, 105, 32}
         THEN LET rest == Utf8Decode(Tail(bs))
                  c == CASE b = 104 -> "h" [] b = 105 -> "i" [] b = 32 -> " "
              IN  IF rest.ok THEN Ok(<<c>> \o rest.val) ELSE rest
         ELSE IF b = 195 /\ Len(bs) >= 2 /\ bs[2] = 169
         THEN LET rest == Utf8Decode(Tail(Tail(bs)))
              IN  IF rest.ok THEN Ok(<<"eacute">> \o rest.val) ELSE rest
         ELSE Err("URIError")

\* tweetnacl-util decodeUTF8: string -> bytes
decodeUTF8(s) ==
    IF s.enc = "text"
    THEN Ok([kind |-> "utf8", data |-> Utf8Encode(s.chars)])
    ELSE Err("TypeError")

\* tweetnacl-util encodeUTF8: bytes -> string
encodeUTF8(b) ==
    IF b.kind \in {"utf8", "raw"}
    THEN LET d == Utf8Decode(b.data) IN IF d.ok THEN Ok(Text(d.val)) ELSE d
    ELSE Err("URIError")

\* tweetnacl-util encodeBase64 / decodeBase64
encodeBase64(b) == [enc |-> "base64", bytes |-> b]
decodeBase64(s) ==
    IF s.enc = "base64" THEN Ok(s.bytes) ELSE Err("TypeError")

\* JSON.stringify / JSON.parse
JSONStringify(v) == [enc |-> "json", value |-> v]
JSONParse(s) ==
    IF s.enc = "json" THEN Ok(s.value) ELSE Err("SyntaxError")

\* String.prototype.trim() leaves nothing: only white space
IsBlank(s) == s.enc = "text" /\ \A i \in 1..Len(s.chars) : s.chars[i] = " "

(***************************************************************************)
(* The primitives of tweetnacl.  A key pair is named by the random seed it *)
(* was drawn from; the shared key of a secret and a public key is the pair *)
(* of their seeds, so that both sides of an exchange compute the same key  *)
(* and no other pair of keys does.                                         *)
(***************************************************************************)
PubBytes(seed) == [kind |-> "pub", seed |-> seed]
SecBytes(seed) == [kind |-> "sec", seed |-> seed]
NonceBytes(n) == [kind |-> "nonce", n |-> n]
RawBytes(d) == [kind |-> "raw", data |-> d]

ByteLength(b) ==
    CASE b.kind \in {"pub", "sec"} -> KEY_LENGTH
      [] b.kind = "nonce" -> NONCE_LENGTH
      [] b.kind \in {"raw", "utf8"} -> Len(b.data)
      [] b.kind = "box" -> 16 + Len(b.msg)

SharedKey(scalar, point) == {scalar, point}

\* the scalar a 32-byte secret key stands for, and the curve point a 32-byte
\* public key stands for; bytes used in the other role stand for a value of
\* their own
Scalar(b) == IF b.kind = "sec" THEN b.seed ELSE b.seed + 1000
Point(b) == IF b.kind = "pub" THEN b.seed ELSE b.seed + 2000

\* nacl.box.keyPair() on the random seed it draws
naclBoxKeyPair(seed) == [publicKey |-> PubBytes(seed), secretKey |-> SecBytes(seed)]

\* nacl.box(msg, nonce, theirPublicKey, mySecretKey): checkBoxLengths throws
\* on a key that is not 32 bytes long, checkLengths on a nonce that is not 24
naclBox(msg, nonce, publicKey, secretKey) ==
    IF ByteLength(publicKey) # KEY_LENGTH THEN Err("bad public key size")
    ELSE IF ByteLength(secretKey) # KEY_LENGTH THEN Err("bad secret key size")
    ELSE IF ByteLength(nonce) # NONCE_LENGTH THEN Err("bad nonce size")
    ELSE Ok([kind |-> "box",
             shared |-> SharedKey(Scalar(secretKey), Point(publicKey)),
             n |-> nonce.n,
             msg |-> msg.data])

\* a box.open that skips the authenticator: it opens a box under any key
naclBoxOpenUnverified(box, nonce, publicKey, secretKey) ==
    IF box.kind = "box" THEN Ok([kind |-> "utf8", data |-> box.msg])
    ELSE Ok(Undefined)

\* nacl.box.open(box, nonce, theirPublicKey, mySecretKey); Ok(Undefined) is
\* the null it returns when the authenticator does not verify
naclBoxOpen(box, nonce, publicKey, secretKey) ==
    IF ByteLength(publicKey) # KEY_LENGTH THEN Err("bad public key size")
    ELSE IF ByteLength(secretKey) # KEY_LENGTH THEN Err("bad secret key size")
    ELSE IF ByteLength(nonce) # NONCE_LENGTH THEN Err("bad nonce size")
    ELSE IF /\ box.kind = "box"
            /\ box.shared = SharedKey(Scalar(secretKey), Point(publicKey))
            /\ box.n = nonce.n
    THEN Ok([kind |-> "utf8", data |-> box.msg])
    ELSE Ok(Undefined)

(***************************************************************************)
(* lib/crypto.ts                                                           *)
(***************************************************************************)
\* generateKeyPair(): StorableKeyPair, on the seed nacl.box.keyPair() draws
generateKeyPair(seed) ==
    LET keyPair == naclBoxKeyPair(seed)
    IN  [publicKey |-> encodeBase64(keyPair.publicKey),
         privateKey |-> encodeBase64(keyPair.secretKey)]

\* the random values one encryptMessage call draws: the seed of the
\* ephemeral key pair and the nonce
Randomness(n) == [seed |-> 0 - n, nonce |-> n]

\* an encryptMessage that ships another nonce than the one it sealed with
encryptMessageStaleNonce(message, recipientPublicKey, rnd) ==
    LET recipientPubKeyBytes == decodeBase64(recipientPublicKey)
        ephemeralKeyPair == naclBoxKeyPair(rnd.seed)
        messageBytes == decodeUTF8(message)
    IN  IF ~recipientPubKeyBytes.ok \/ ~messageBytes.ok
        THEN Err("Failed to encrypt message")
        ELSE LET ciphertext == naclBox(messageBytes.val, NonceBytes(rnd.nonce),
                                       recipientPubKeyBytes.val,
                                       ephemeralKeyPair.secretKey)
             IN  IF ~ciphertext.ok THEN Err("Failed to encrypt message")
                 ELSE Ok([ephemeralPublicKey |-> encodeBase64(ephemeralKeyPair.publicKey),
                          nonce |-> encodeBase64(NonceBytes(rnd.nonce + 1)),
                          ciphertext |-> encodeBase64(ciphertext.val),
                          version |-> ENCRYPTION_VERSION])

\* encryptMessage(message, recipientPublicKey): Ok(EncryptedPayload), or
\* Err("Failed to encrypt message") for whatever the try block throws
encryptMessage(message, recipientPublicKey, rnd) ==
    LET recipientPubKeyBytes == decodeBase64(recipientPublicKey)
        ephemeralKeyPair == naclBoxKeyPair(rnd.seed)
        nonce == NonceBytes(rnd.nonce)
        messageBytes == decodeUTF8(message)
    IN  IF ~recipientPubKeyBytes.ok \/ ~messageBytes.ok
        THEN Err("Failed to encrypt message")
        ELSE LET ciphertext == naclBox(messageBytes.val, nonce,
                                       recipientPubKeyBytes.val,
                                       ephemeralKeyPair.secretKey)
             IN  IF ~ciphertext.ok THEN Err("Failed to encrypt message")
                 ELSE Ok([ephemeralPublicKey |-> encodeBase64(ephemeralKeyPair.publicKey),
                          nonce |-> encodeBase64(nonce),
                          ciphertext |-> encodeBase64(ciphertext.val),
                          version |-> ENCRYPTION_VERSION])

\* payload.f of a parsed JSON value: Undefined when the field is missing
Field(payload, f) == IF f \in DOMAIN payload THEN payload[f] ELSE Undefined

\* decryptMessage(payload, privateKey): Ok(plaintext), or
\* Err("Failed to decrypt message...") for whatever the try block throws.
\* The version is read and compared, and the decoding does not depend on it.
decryptMessage(payload, privateKey) ==
    IF "isNull" \in DOMAIN payload THEN Err("Failed to decrypt message")
    ELSE
    LET ephemeralPubKey == decodeBase64(Field(payload, "ephemeralPublicKey"))
        nonce == decodeBase64(Field(payload, "nonce"))
        ciphertext == decodeBase64(Field(payload, "ciphertext"))
        privateKeyBytes == decodeBase64(privateKey)
    IN  IF ~ephemeralPubKey.ok \/ ~nonce.ok \/ ~ciphertext.ok \/ ~privateKeyBytes.ok
        THEN Err("Failed to decrypt message")
        ELSE LET decrypted == naclBoxOpen(ciphertext.val, nonce.val,
                                          ephemeralPubKey.val, privateKeyBytes.val)
             IN  IF ~decrypted.ok \/ decrypted.val = Undefined
                 THEN Err("Failed to decrypt message")
                 ELSE LET text == encodeUTF8(decrypted.val)
                      IN  IF text.ok THEN Ok(text.val)
                          ELSE Err("Failed to decrypt message")

(***************************************************************************)
(* The state.                                                              *)
(***************************************************************************)
VARIABLES
    authStorage,    \* localStorage 'auth-storage': the logged-in username, "" if none
    keyStore,       \* the IndexedDB object store 'keys' of each device: id -> key
    directory,      \* the key directory of the server: username -> public key
    nKeys,          \* the key pairs generated so far
    socketRef,      \* socketRef.current is a socket (the hook is mounted)
    username,       \* the username the hook was rendered with
    privateKeyRef,  \* privateKeyRef.current, Undefined for null
    e2eEnabledRef,  \* e2eEnabledRef.current
    e2eStatus,      \* 'loading' | 'enabled' | 'disabled'
    messages,       \* the message log of the hook
    loads,          \* the loadPrivateKey calls that await getPrivateKey()
    sends,          \* the sendDirectMessage calls that are suspended at an await
    recvs,          \* the receive handlers suspended at await decryptMessage
    wire,           \* the events the hooks emitted on their sockets, in order
    returned,       \* the finished sendDirectMessage calls: the value the caller
                    \* got, and the path the call took
    encryptCalls,   \* the encryptMessage calls the hooks made
    decryptCalls,   \* the decryptMessage calls the hooks made
    nCalls,         \* the send calls made so far
    received,       \* the events the relay delivered, each with the key held then
    test,           \* the local variables of the crypto-test.ts function that runs
    page,           \* the e2e-test page of each device: its React state and the
                    \* position of its handlers
    requests,       \* the requests the clients sent to the key directory
    recipientKeyCache,  \* the recipientKeyCache map of keyStore.ts on each device
    isConnected,    \* the isConnected state of the hook
    p2pEvents,      \* the p2pEvents state of the hook
    resyncs,        \* the keysApi.resyncKey() promises of the hook that are pending
    console         \* what the peer_connected handler has written to the console

vars == <<authStorage, keyStore, directory, nKeys, socketRef, username,
          privateKeyRef, e2eEnabledRef, e2eStatus, messages, loads, sends,
          recvs, wire, returned, encryptCalls, decryptCalls, nCalls,
          received, test, page, requests, recipientKeyCache, isConnected,
          p2pEvents, resyncs, console>>

\* the state outside the hook, the stores and the test functions
sideVars == <<page, requests, recipientKeyCache, isConnected, p2pEvents,
              resyncs, console>>

\* the connection state, the P2P events and the key resyncs of the hook
peerVars == <<isConnected, p2pEvents, resyncs, console>>

storeVars == <<authStorage, keyStore, directory, nKeys>>
hookVars == <<socketRef, username, privateKeyRef, e2eEnabledRef, e2eStatus,
              messages, loads, sends, recvs, wire, returned, encryptCalls,
              decryptCalls, nCalls, received>>

(***************************************************************************)
(* lib/keyStore.ts                                                         *)
(***************************************************************************)
\* String.prototype.toLowerCase() on the usernames of the model
toLowerCase(name) ==
    CASE name \in {"alice", "Alice"} -> "alice"
      [] name \in {"bob", "Bob"} -> "bob"
      [] OTHER -> name

\* getCurrentUsername(): the username in localStorage, "" for null
getCurrentUsername(u) == authStorage[u]

\* getPrivateKeyId() / getPublicKeyId(): the id of the entry of the current
\* user, user being what getCurrentUsername() returns
getPrivateKeyId(user) ==
    IF user # "" THEN <<"private-key-", toLowerCase(user)>>
    ELSE <<"user-private-key", "">>

getPublicKeyId(user) ==
    IF user # "" THEN <<"public-key-", toLowerCase(user)>>
    ELSE <<"user-public-key", "">>

KeyIds ==
    {<<"user-private-key", "">>, <<"user-public-key", "">>}
        \cup ({"private-key-", "public-key-"} \X Users)

EmptyStore == [id \in KeyIds |-> Undefined]

\* store.get(id).key in the object store of a device: Undefined stands for
\* the null of a missing entry
StoredPrivateKey(store, user) == store[getPrivateKeyId(user)]
StoredPublicKey(store, user) == store[getPublicKeyId(user)]

\* getKeyPair() on a store: the pair, or Undefined when a half is missing
StoredKeyPair(store, user) ==
    IF StoredPublicKey(store, user) # Undefined
       /\ StoredPrivateKey(store, user) # Undefined
    THEN [publicKey |-> StoredPublicKey(store, user),
          privateKey |-> StoredPrivateKey(store, user)]
    ELSE Undefined

\* the functions of keyStore.ts on the device of u
getPrivateKey(u) == StoredPrivateKey(keyStore[u], getCurrentUsername(u))
getPublicKey(u) == StoredPublicKey(keyStore[u], getCurrentUsername(u))
getKeyPair(u) == StoredKeyPair(keyStore[u], getCurrentUsername(u))
hasKeyPair(u) == getKeyPair(u) # Undefined

\* a saveKeyPair that empties the object store before its two puts
saveKeyPairAlone(store, user, publicKey, privateKey) ==
    [EmptyStore EXCEPT ![getPublicKeyId(user)] = publicKey,
                       ![getPrivateKeyId(user)] = privateKey]

\* saveKeyPair(publicKey, privateKey): the store after both puts
saveKeyPair(store, user, publicKey, privateKey) ==
    [store EXCEPT ![getPublicKeyId(user)] = publicKey,
                  ![getPrivateKeyId(user)] = privateKey]

\* a clearKeys that leaves the store as it is
clearKeysKept(store) == store

\* clearKeys(): store.clear() empties the whole object store
clearKeys(store) == EmptyStore

(***************************************************************************)
(* Login and key setup (the login page), and the key directory.            *)
(***************************************************************************)
Names == Users \cup {Stranger}

\* a public key of the version-1 client (an RSA key): base64, not 32 bytes
LegacyPublicKey == encodeBase64(RawBytes(<<1, 2, 3>>))

\* keysApi.updatePublicKey(publicKey), answered ok: the directory holds the
\* key for the user of the token
updatePublicKey(user, publicKey) == [directory EXCEPT ![user] = publicKey]

\* isValidPublicKey(publicKey): base64 of 32 bytes
isValidPublicKey(publicKey) ==
    LET decoded == decodeBase64(publicKey)
    IN  decoded.ok /\ ByteLength(decoded.val) = KEY_LENGTH

\* a client that sends the stored private key with every request
RequestWithPrivateKey(u, api, body) ==
    [by |-> u, api |-> api, body |-> StoredPrivateKey(keyStore[u], authStorage[u])]

\* a request of the client of u to the key directory
Request(u, api, body) == [by |-> u, api |-> api, body |-> body]

\* setupE2EEncryption() for the logged-in user: with a stored pair the
\* public key is synced again if it is a valid one, without a pair one is
\* generated, saved and uploaded; uploaded tells whether the directory took
\* the key
setupE2EEncryption(u, user, uploaded) ==
    IF StoredKeyPair(keyStore[u], user) # Undefined
    THEN LET localPublicKey == StoredPublicKey(keyStore[u], user) IN
         /\ IF isValidPublicKey(localPublicKey)
            THEN /\ requests' = requests \cup
                        {Request(u, "updatePublicKey", localPublicKey)}
                 /\ directory' = IF uploaded
                                 THEN updatePublicKey(user, localPublicKey)
                                 ELSE directory
            ELSE UNCHANGED <<requests, directory>>
         /\ UNCHANGED <<keyStore, nKeys>>
    ELSE /\ nKeys < MaxKeyPairs
         /\ LET keyPair == generateKeyPair(nKeys + 1) IN
            /\ nKeys' = nKeys + 1
            /\ keyStore' = [keyStore EXCEPT ![u] =
                   saveKeyPair(@, user, keyPair.publicKey, keyPair.privateKey)]
            /\ requests' = requests \cup
                   {Request(u, "updatePublicKey", keyPair.publicKey)}
            /\ directory' = IF uploaded THEN updatePublicKey(user, keyPair.publicKey)
                            ELSE directory

\* LoginPage.handleSubmit on the device of u after authApi.login answered
\* with the user called name: the auth store's login(user, token),
\* persisted to localStorage, then setupE2EEncryption()
handleSubmitAs(u, name, uploaded) ==
    /\ authStorage[u] = ""
    /\ authStorage' = [authStorage EXCEPT ![u] = name]
    /\ setupE2EEncryption(u, name, uploaded)
    /\ UNCHANGED <<hookVars, test, page, recipientKeyCache, peerVars>>

\* the login of a user on the device of their own
handleSubmit(u, uploaded) == handleSubmitAs(u, u, uploaded)

(***************************************************************************)
(* lib/useSocket.ts: mounting the hook and loading the private key.        *)
(***************************************************************************)
\* the first render of the hook and its two effects: the page passes
\* user?.username || '', and the store may not be hydrated yet
Mount(u, name) ==
    /\ ~socketRef[u]
    /\ name \in {"", authStorage[u]}
    /\ socketRef' = [socketRef EXCEPT ![u] = TRUE]
    /\ username' = [username EXCEPT ![u] = name]
    /\ loads' = [loads EXCEPT ![u] = IF name # "" THEN 1 ELSE 0]
    /\ UNCHANGED <<storeVars, privateKeyRef, e2eEnabledRef, e2eStatus, messages,
                   sends, recvs, wire, returned, encryptCalls, decryptCalls,
                   nCalls, received, test, sideVars>>

\* the cleanup of the socket effect: emit('leave', { username }) and
\* disconnect(); a socket that has not connected buffers the event, and the
\* disconnect drops it
Left(u) ==
    IF \E i \in 1..Len(wire) : wire[i].from = u /\ wire[i].event = "join"
    THEN Append(wire, [event |-> "leave", from |-> u,
                       data |-> [username |-> username[u]]])
    ELSE wire

\* a render with a new username (the auth store hydrates): the cleanup of
\* the socket effect emits 'leave' with the old name, both effects run
\* again, loadPrivateKey is called and the handlers close over the new name
UsernameChange(u) ==
    /\ socketRef[u]
    /\ username[u] = ""
    /\ authStorage[u] # ""
    /\ username' = [username EXCEPT ![u] = authStorage[u]]
    /\ loads' = [loads EXCEPT ![u] = @ + 1]
    /\ wire' = Left(u)
    /\ UNCHANGED <<storeVars, socketRef, privateKeyRef, e2eEnabledRef, e2eStatus,
                   messages, sends, recvs, returned, encryptCalls,
                   decryptCalls, nCalls, received, test, sideVars>>

\* a loadPrivateKey without its catch block: a key store that failed leaves
\* the status as it is
loadPrivateKeyUncaught(u, rejected) ==
    /\ loads[u] > 0
    /\ loads' = [loads EXCEPT ![u] = @ - 1]
    /\ LET privateKey == getPrivateKey(u) IN
       IF ~rejected /\ privateKey # Undefined
       THEN /\ privateKeyRef' = [privateKeyRef EXCEPT ![u] = privateKey]
            /\ e2eEnabledRef' = [e2eEnabledRef EXCEPT ![u] = TRUE]
            /\ e2eStatus' = [e2eStatus EXCEPT ![u] = "enabled"]
       ELSE /\ e2eStatus' = [e2eStatus EXCEPT ![u] =
                                IF rejected THEN @ ELSE "disabled"]
            /\ UNCHANGED <<privateKeyRef, e2eEnabledRef>>
    /\ UNCHANGED <<storeVars, socketRef, username, messages, sends, recvs, wire,
                   returned, encryptCalls, decryptCalls, nCalls, received, test, sideVars>>

\* loadPrivateKey() after await getPrivateKey(): rejected tells that the key
\* store failed
loadPrivateKey(u, rejected) ==
    /\ loads[u] > 0
    /\ loads' = [loads EXCEPT ![u] = @ - 1]
    /\ LET privateKey == getPrivateKey(u) IN
       IF ~rejected /\ privateKey # Undefined
       THEN /\ privateKeyRef' = [privateKeyRef EXCEPT ![u] = privateKey]
            /\ e2eEnabledRef' = [e2eEnabledRef EXCEPT ![u] = TRUE]
            /\ e2eStatus' = [e2eStatus EXCEPT ![u] = "enabled"]
       ELSE /\ e2eStatus' = [e2eStatus EXCEPT ![u] = "disabled"]
            /\ UNCHANGED <<privateKeyRef, e2eEnabledRef>>
    /\ UNCHANGED <<storeVars, socketRef, username, messages, sends, recvs, wire,
                   returned, encryptCalls, decryptCalls, nCalls, received, test, sideVars>>

(***************************************************************************)
(* lib/useSocket.ts: sending.                                              *)
(***************************************************************************)
\* the messages a user types
Hi == Text(<<"h", "i">>)
Blank == Text(<<" ">>)
Bodies == {Hi, Blank}

\* socketRef.current.emit(event, data)
Emit(u, event, data) == Append(wire, [event |-> event, from |-> u, data |-> data])

\* a sendMessage that encrypts to the sender's own directory key once the
\* private key is loaded
sendMessageSealed(u, message) ==
    /\ username[u] # "" \/ ~socketRef[u]
    /\ nCalls < MaxCalls
    /\ nCalls' = nCalls + 1
    /\ LET sealed == encryptMessage(message, directory[u], Randomness(nCalls + 1))
           seal == e2eEnabledRef[u] /\ sealed.ok
       IN  IF ~socketRef[u] \/ IsBlank(message)
           THEN UNCHANGED <<wire, encryptCalls>>
           ELSE /\ wire' = Emit(u, "send_message",
                         [username |-> username[u],
                          message |-> IF seal THEN JSONStringify(sealed.val)
                                      ELSE message,
                          encrypted |-> seal,
                          isDM |-> FALSE,
                          timestamp |-> nCalls + 1])
                /\ encryptCalls' = IF e2eEnabledRef[u]
                                   THEN encryptCalls \cup
                                            {[by |-> u, call |-> nCalls + 1]}
                                   ELSE encryptCalls
    /\ UNCHANGED <<storeVars, socketRef, username, privateKeyRef, e2eEnabledRef,
                   e2eStatus, messages, loads, sends, recvs, returned,
                   decryptCalls, received, test, sideVars>>

\* sendMessage(message)
sendMessage(u, message) ==
    /\ username[u] # "" \/ ~socketRef[u]
    /\ nCalls < MaxCalls
    /\ nCalls' = nCalls + 1
    /\ IF ~socketRef[u] \/ IsBlank(message)
       THEN UNCHANGED wire
       ELSE wire' = Emit(u, "send_message",
                         [username |-> username[u],
                          message |-> message,
                          encrypted |-> FALSE,
                          isDM |-> FALSE,
                          timestamp |-> nCalls + 1])
    /\ UNCHANGED encryptCalls
    /\ UNCHANGED <<storeVars, socketRef, username, privateKeyRef, e2eEnabledRef,
                   e2eStatus, messages, loads, sends, recvs, returned,
                   decryptCalls, received, test, sideVars>>

\* a local echo that does not name the recipient
EchoToNobody(call) ==
    [username |-> call.username,
     message |-> call.message,
     timestamp |-> call.timestamp,
     isDM |-> TRUE,
     recipient |-> ""]

\* the local echo of a directed message
Echo(call) ==
    [username |-> call.username,
     message |-> call.message,
     timestamp |-> call.timestamp,
     isDM |-> TRUE,
     recipient |-> call.recipient]

\* the tail of sendDirectMessage: the unencrypted envelope and the echo
Fallback(u, call, path) ==
    /\ wire' = Emit(u, "send_direct_message",
                    [username |-> call.username,
                     recipient |-> call.recipient,
                     message |-> call.message,
                     encrypted |-> FALSE,
                     timestamp |-> call.timestamp])
    /\ messages' = [messages EXCEPT ![u] = Append(@, Echo(call))]
    /\ returned' = returned \cup
           {[call |-> call.id, by |-> u, value |-> Undefined, path |-> path]}

\* the path of GET /keys/<username>
Path(name) == [enc |-> "path", username |-> name]

\* sendDirectMessage(message, recipient) up to its first await: with the
\* private key loaded, the request for the recipient's public key goes out
sendDirectMessageCall(u, message, recipient) ==
    /\ username[u] # "" \/ ~socketRef[u]
    /\ nCalls' = nCalls + 1
    /\ LET call == [id |-> nCalls + 1,
                    username |-> username[u],
                    message |-> message,
                    recipient |-> recipient,
                    timestamp |-> nCalls + 1,
                    pc |-> "getPublicKey",
                    payload |-> Undefined]
       IN  IF ~socketRef[u] \/ IsBlank(message) \/ recipient = ""
           THEN UNCHANGED <<wire, messages, returned, sends, requests>>
           ELSE IF e2eEnabledRef[u] /\ privateKeyRef[u] # Undefined
           THEN /\ sends' = [sends EXCEPT ![u] = @ \cup {call}]
                /\ requests' = requests \cup
                       {Request(u, "getPublicKey", Path(recipient))}
                /\ UNCHANGED <<wire, messages, returned>>
           ELSE /\ Fallback(u, call, "not enabled")
                /\ UNCHANGED <<sends, requests>>
    /\ UNCHANGED <<storeVars, socketRef, username, privateKeyRef, e2eEnabledRef,
                   e2eStatus, loads, recvs, encryptCalls, decryptCalls,
                   received, test, page, recipientKeyCache, peerVars>>

\* a sendDirectMessage call, while the calls of the behaviour are below
\* MaxCalls
sendDirectMessage(u, message, recipient) ==
    /\ nCalls < MaxCalls
    /\ sendDirectMessageCall(u, message, recipient)

\* keysApi.getPublicKey(recipient): Ok({data, error}), or Err when fetch or
\* res.json() rejects
getPublicKeyResponse(recipient, networkFails) ==
    IF networkFails THEN Err("TypeError")
    ELSE IF directory[recipient] # Undefined
    THEN Ok([data |-> [username |-> recipient, public_key |-> directory[recipient]],
             error |-> Undefined])
    ELSE Ok([data |-> Undefined, error |-> Text(<<>>)])

\* sendDirectMessage after await keysApi.getPublicKey(recipient): with a key
\* encryptMessage is called and awaited, without one the message falls back
sendDirectMessageLookup(u, call, networkFails) ==
    /\ call \in sends[u]
    /\ call.pc = "getPublicKey"
    /\ LET response == getPublicKeyResponse(call.recipient, networkFails) IN
       IF response.ok /\ response.val.data # Undefined
       THEN /\ sends' = [sends EXCEPT ![u] = (@ \ {call}) \cup
                   {[call EXCEPT !.pc = "encryptMessage",
                                 !.payload = encryptMessage(call.message,
                                     response.val.data.public_key,
                                     Randomness(call.id))]}]
            /\ encryptCalls' = encryptCalls \cup {[by |-> u, call |-> call.id]}
            /\ UNCHANGED <<wire, messages, returned>>
       ELSE /\ sends' = [sends EXCEPT ![u] = @ \ {call}]
            /\ Fallback(u, call, IF response.ok THEN "no public key"
                                 ELSE "getPublicKey threw")
            /\ UNCHANGED encryptCalls
    /\ UNCHANGED <<storeVars, socketRef, username, privateKeyRef, e2eEnabledRef,
                   e2eStatus, loads, recvs, decryptCalls, nCalls, received, test, sideVars>>

\* sendDirectMessage after await encryptMessage(...): the encrypted envelope
\* and the echo, or, when encryptMessage threw, the catch and the fallback
sendDirectMessageEncrypted(u, call) ==
    /\ call \in sends[u]
    /\ call.pc = "encryptMessage"
    /\ sends' = [sends EXCEPT ![u] = @ \ {call}]
    /\ IF call.payload.ok
       THEN /\ wire' = Emit(u, "send_direct_message",
                            [username |-> call.username,
                             recipient |-> call.recipient,
                             message |-> JSONStringify(call.payload.val),
                             encrypted |-> TRUE,
                             timestamp |-> call.timestamp])
            /\ messages' = [messages EXCEPT ![u] = Append(@, Echo(call))]
            /\ returned' = returned \cup
                   {[call |-> call.id, by |-> u, value |-> Undefined,
                     path |-> "encrypted"]}
       ELSE Fallback(u, call, "encryptMessage threw")
    /\ UNCHANGED <<storeVars, socketRef, username, privateKeyRef, e2eEnabledRef,
                   e2eStatus, loads, recvs, encryptCalls, decryptCalls, nCalls,
                   received, test, sideVars>>

(***************************************************************************)
(* lib/useSocket.ts: receiving.                                            *)
(***************************************************************************)
\* the bodies the handlers put in place of a message they cannot decrypt
UnableToDecryptMessage == Text(<<"[Encrypted message - unable to decrypt]">>)
UnableToDecryptDM == Text(<<"[Encrypted DM - unable to decrypt]">>)

\* { ...data, ...fields }
Spread(data, fields) ==
    [f \in DOMAIN data \cup DOMAIN fields |->
        IF f \in DOMAIN fields THEN fields[f] ELSE data[f]]

\* what a peer outside the model puts in an envelope flagged encrypted: a
\* JSON object without the payload fields, a payload for a key nobody
\* holds, and a payload for the key the directory serves for the recipient
NotAPayload == [version |-> ENCRYPTION_VERSION]
ForeignPayloads(recipient) ==
    {NotAPayload, encryptMessage(Hi, generateKeyPair(0).publicKey, Randomness(0)).val}
    \cup (IF encryptMessage(Hi, directory[recipient], Randomness(0)).ok
          THEN {encryptMessage(Hi, directory[recipient], Randomness(0)).val}
          ELSE {})

\* the events of the hooks' sockets the relay hands on
Emitted(event) ==
    {w.data : w \in {x \in {wire[i] : i \in 1..Len(wire)} : x.event = event}}

\* the receive_message events the relay may deliver to u: the broadcasts of
\* the hooks, and from a peer outside the model a clear text and a text
\* flagged encrypted that is no JSON
BroadcastEvents(u) ==
    Emitted("send_message")
    \cup {[username |-> Stranger, message |-> Hi, encrypted |-> e,
           isDM |-> FALSE, timestamp |-> 0] : e \in BOOLEAN}

\* the receive_direct_message events the relay may deliver to u: the
\* directed messages of the hooks that u sent or that are addressed to u,
\* and the encrypted ones of a peer outside the model
DirectEvents(u) ==
    {data \in Emitted("send_direct_message") :
        data.recipient = u \/ data.username = u}
    \cup {[username |-> Stranger, recipient |-> u, message |-> JSONStringify(p),
           encrypted |-> TRUE, timestamp |-> 0] : p \in ForeignPayloads(u)}

\* the record of one delivery: the hook, the event, the private key the hook
\* held, and the number of the delivery among those of the same event
Delivery(u, event, data) ==
    [by |-> u, event |-> event, data |-> data, key |-> privateKeyRef[u],
     n |-> 1 + Cardinality({r \in received :
                r.by = u /\ r.event = event /\ r.data = data})]

\* the relay still has a delivery to make
Deliverable(data) ==
    /\ Cardinality(received) < MaxReceives
    /\ data.username = Stranger =>
           Cardinality({r \in received : r.data.username = Stranger}) < MaxForeign

\* the handler of 'receive_message' up to await decryptMessage
receive_message(u, data) ==
    /\ socketRef[u]
    /\ Deliverable(data)
    /\ received' = received \cup {Delivery(u, "receive_message", data)}
    /\ IF data.encrypted /\ privateKeyRef[u] # Undefined
       THEN LET encryptedPayload == JSONParse(data.message) IN
            IF encryptedPayload.ok
            THEN /\ recvs' = [recvs EXCEPT ![u] = Append(@,
                        [event |-> "receive_message", data |-> data,
                         decrypted |-> decryptMessage(encryptedPayload.val,
                                                      privateKeyRef[u])])]
                 /\ decryptCalls' = decryptCalls \cup {[by |-> u, data |-> data]}
                 /\ UNCHANGED messages
            ELSE /\ messages' = [messages EXCEPT ![u] = Append(@,
                        Spread(data, [message |-> UnableToDecryptMessage]))]
                 /\ UNCHANGED <<recvs, decryptCalls>>
       ELSE /\ messages' = [messages EXCEPT ![u] = Append(@, data)]
            /\ UNCHANGED <<recvs, decryptCalls>>
    /\ UNCHANGED <<storeVars, socketRef, username, privateKeyRef, e2eEnabledRef,
                   e2eStatus, loads, sends, wire, returned, encryptCalls,
                   nCalls, test, sideVars>>

\* a handler that takes every directed message for a message of a peer
SentByNobody(u, data) == FALSE

\* data.username === username: the directed message is the hook's own
SentBySelf(u, data) == data.username = username[u]

\* the handler of 'receive_direct_message' up to await decryptMessage
receive_direct_message(u, data) ==
    /\ socketRef[u]
    /\ Deliverable(data)
    /\ received' = received \cup {Delivery(u, "receive_direct_message", data)}
    /\ IF SentBySelf(u, data)
       THEN UNCHANGED <<messages, recvs, decryptCalls>>
       ELSE IF data.encrypted /\ privateKeyRef[u] # Undefined
       THEN LET encryptedPayload == JSONParse(data.message) IN
            IF encryptedPayload.ok
            THEN /\ recvs' = [recvs EXCEPT ![u] = Append(@,
                        [event |-> "receive_direct_message", data |-> data,
                         decrypted |-> decryptMessage(encryptedPayload.val,
                                                      privateKeyRef[u])])]
                 /\ decryptCalls' = decryptCalls \cup {[by |-> u, data |-> data]}
                 /\ UNCHANGED messages
            ELSE /\ messages' = [messages EXCEPT ![u] = Append(@,
                        Spread(data, [message |-> UnableToDecryptDM,
                                      isDM |-> TRUE]))]
                 /\ UNCHANGED <<recvs, decryptCalls>>
       ELSE /\ messages' = [messages EXCEPT ![u] = Append(@,
                   Spread(data, [isDM |-> TRUE]))]
            /\ UNCHANGED <<recvs, decryptCalls>>
    /\ UNCHANGED <<storeVars, socketRef, username, privateKeyRef, e2eEnabledRef,
                   e2eStatus, loads, sends, wire, returned, encryptCalls,
                   nCalls, test, sideVars>>

\* a handler that appends the envelope as it came, whatever decryptMessage
\* returned
DecryptedNever(recv) ==
    IF recv.event = "receive_message" THEN recv.data
    ELSE Spread(recv.data, [isDM |-> TRUE])

\* the entry a handler appends after await decryptMessage: the decrypted
\* message, or the catch block's placeholder
Decrypted(recv) ==
    IF recv.event = "receive_message"
    THEN Spread(recv.data,
                [message |-> IF recv.decrypted.ok THEN recv.decrypted.val
                             ELSE UnableToDecryptMessage])
    ELSE Spread(recv.data,
                [message |-> IF recv.decrypted.ok THEN recv.decrypted.val
                             ELSE UnableToDecryptDM,
                 isDM |-> TRUE])

\* a handler that puts the decrypted message at the head of the log
receiveDecryptedFirst(u) ==
    /\ recvs[u] # <<>>
    /\ recvs' = [recvs EXCEPT ![u] = Tail(@)]
    /\ messages' = [messages EXCEPT ![u] = <<Decrypted(Head(recvs[u]))>> \o @]
    /\ UNCHANGED <<storeVars, socketRef, username, privateKeyRef, e2eEnabledRef,
                   e2eStatus, loads, sends, wire, returned, encryptCalls,
                   decryptCalls, nCalls, received, test, sideVars>>

\* a receive handler after await decryptMessage; the promises settle in the
\* order of the calls
receiveDecrypted(u) ==
    /\ recvs[u] # <<>>
    /\ recvs' = [recvs EXCEPT ![u] = Tail(@)]
    /\ messages' = [messages EXCEPT ![u] = Append(@, Decrypted(Head(recvs[u])))]
    /\ UNCHANGED <<storeVars, socketRef, username, privateKeyRef, e2eEnabledRef,
                   e2eStatus, loads, sends, wire, returned, encryptCalls,
                   decryptCalls, nCalls, received, test, sideVars>>

(***************************************************************************)
(* The client.                                                             *)
(***************************************************************************)
Idle == [fn |-> "", pc |-> "idle"]

\* the e2e-test page before it is shown: e2eStatus and localKeys are its
\* React state, check tells that checkE2EStatus awaits getKeyPair(), run is
\* the await runAllTests is suspended at, keys the pair it generated
Unmounted == [mounted |-> FALSE, e2eStatus |-> "checking", localKeys |-> Undefined,
              check |-> FALSE, run |-> "idle", keys |-> Undefined]

Init ==
    /\ authStorage = [u \in Users |-> ""]
    /\ keyStore = [u \in Users |-> EmptyStore]
    /\ directory = [n \in Names |-> IF n = Stranger THEN LegacyPublicKey ELSE Undefined]
    /\ nKeys = 0
    /\ socketRef = [u \in Users |-> FALSE]
    /\ username = [u \in Users |-> ""]
    /\ privateKeyRef = [u \in Users |-> Undefined]
    /\ e2eEnabledRef = [u \in Users |-> FALSE]
    /\ e2eStatus = [u \in Users |-> "loading"]
    /\ messages = [u \in Users |-> <<>>]
    /\ loads = [u \in Users |-> 0]
    /\ sends = [u \in Users |-> {}]
    /\ recvs = [u \in Users |-> <<>>]
    /\ wire = <<>>
    /\ returned = {}
    /\ encryptCalls = {}
    /\ decryptCalls = {}
    /\ nCalls = 0
    /\ received = {}
    /\ test = Idle
    /\ page = [u \in Users |-> Unmounted]
    /\ requests = {}
    /\ recipientKeyCache = [u \in Users |-> [n \in Names |-> Undefined]]
    /\ isConnected = [u \in Users |-> FALSE]
    /\ p2pEvents = [u \in Users |-> <<>>]
    /\ resyncs = [u \in Users |-> 0]
    /\ console = [u \in Users |-> <<>>]

Next ==
    \/ \E u \in Users, uploaded \in BOOLEAN : handleSubmit(u, uploaded)
    \/ \E u \in Users, name \in Users \cup {""} : Mount(u, name)
    \/ \E u \in Users : UsernameChange(u)
    \/ \E u \in Users, rejected \in BOOLEAN : loadPrivateKey(u, rejected)
    \/ \E u \in Users, message \in Bodies : sendMessage(u, message)
    \/ \E u \in Users, message \in Bodies, recipient \in Names \cup {""} :
            sendDirectMessage(u, message, recipient)
    \/ \E u \in Users : \E call \in sends[u], networkFails \in BOOLEAN :
            sendDirectMessageLookup(u, call, networkFails)
    \/ \E u \in Users : \E call \in sends[u] : sendDirectMessageEncrypted(u, call)
    \/ \E u \in Users : \E data \in BroadcastEvents(u) : receive_message(u, data)
    \/ \E u \in Users : \E data \in DirectEvents(u) : receive_direct_message(u, data)
    \/ \E u \in Users : receiveDecrypted(u)

Spec == Init /\ [][Next]_vars

(***************************************************************************)
(* Properties of the hook (Spec).                                          *)
(***************************************************************************)
\* C1: no plaintext on the wire.  No step hands the relay a
\* send_direct_message envelope that carries the plaintext body when the
\* directory holds a public key for the recipient: such an envelope is
\* flagged encrypted and its message is no text, on every path, whether the
\* sender's key is loading or absent, the lookup throws, or encryptMessage
\* fails.
C1_NoPlaintextOnWire ==
    [][\A env \in Emitted("send_direct_message")' \ Emitted("send_direct_message") :
            directory[env.recipient] # Undefined =>
                env.encrypted /\ env.message.enc # "text"]_vars

\* C2: scenario A.  An envelope sendDirectMessage emitted as encrypted
\* carries a JSON payload of version 2 that was sealed to the recipient's
\* directory key; the sender's log holds exactly one entry for it, the local
\* echo: a directed entry with the plaintext, which is what the payload
\* decrypts to under a generated private key; the sender never calls
\* decryptMessage for it; and once the recipient's handlers are done, every
\* delivery made while the recipient held the private key of the directory
\* key has appended exactly one directed entry with the plaintext.
C2_ScenarioA ==
    \A i \in 1..Len(wire) :
        LET w == wire[i]
            env == w.data
            sender == w.from
            recipient == env.recipient
            EntriesOf(u) ==
                {j \in 1..Len(messages[u]) :
                    /\ messages[u][j].username = env.username
                    /\ messages[u][j].timestamp = env.timestamp}
            payload == JSONParse(env.message)
        IN  (w.event = "send_direct_message" /\ env.encrypted) =>
                /\ payload.ok
                /\ payload.val.version = 2
                /\ directory[recipient] # Undefined
                /\ Cardinality(EntriesOf(sender)) = 1
                /\ \A j \in EntriesOf(sender) :
                      LET echo == messages[sender][j] IN
                      /\ echo.isDM /\ echo.recipient = recipient
                      /\ echo.message.enc = "text"
                      /\ \E k \in 1..nKeys :
                            decryptMessage(payload.val, generateKeyPair(k).privateKey)
                                = Ok(echo.message)
                      /\ recipient \in Users \ {sender} =>
                            LET deliveries ==
                                    {r \in received :
                                        /\ r.by = recipient
                                        /\ r.event = "receive_direct_message"
                                        /\ r.data = env}
                            IN  (/\ recvs[recipient] = <<>>
                                 /\ \A r \in deliveries : \E k \in 1..nKeys :
                                       /\ r.key = generateKeyPair(k).privateKey
                                       /\ directory[recipient] =
                                              generateKeyPair(k).publicKey) =>
                                    /\ Cardinality(EntriesOf(recipient)) =
                                           Cardinality(deliveries)
                                    /\ \A n \in EntriesOf(recipient) :
                                          messages[recipient][n] =
                                              Spread(env, [message |-> echo.message,
                                                           isDM |-> TRUE])
                /\ [by |-> sender, data |-> env] \notin decryptCalls

\* alice's "hi" went out encrypted to bob; the relay delivered the envelope
\* to bob, who held his private key and has shown it, and back to alice
C2_Witness ==
    \E i \in 1..Len(wire) :
        /\ wire[i].event = "send_direct_message"
        /\ wire[i].from = "alice"
        /\ wire[i].data.recipient = "bob"
        /\ wire[i].data.encrypted
        /\ \E r \in received :
              /\ r.by = "bob" /\ r.data = wire[i].data /\ r.key # Undefined
        /\ \E r \in received : r.by = "alice" /\ r.data = wire[i].data
        /\ recvs["bob"] = <<>>
        /\ Len(messages["bob"]) = 1
        /\ messages["bob"][1].message = Hi
        /\ messages["alice"] = <<[username |-> "alice", message |-> Hi,
                                  timestamp |-> wire[i].data.timestamp,
                                  isDM |-> TRUE, recipient |-> "bob"]>>

\* C3: exactly-once display.  In every state the sender's log holds exactly
\* one entry for every directed message the hook has sent, however the echo
\* and the deliveries of the relay interleave; and a receive_direct_message
\* step for an envelope whose sender is the local username leaves the log,
\* the pending handlers and the decryptMessage calls unchanged.
C3_ExactlyOnce ==
    /\ [](\A i \in 1..Len(wire) :
            wire[i].event = "send_direct_message" =>
                Cardinality({j \in 1..Len(messages[wire[i].from]) :
                    /\ messages[wire[i].from][j].username = wire[i].data.username
                    /\ messages[wire[i].from][j].timestamp = wire[i].data.timestamp})
                    = 1)
    /\ [][\A r \in received' \ received :
            (r.event = "receive_direct_message" /\ r.data.username = username[r.by]) =>
                /\ messages' = messages
                /\ recvs' = recvs
                /\ decryptCalls' = decryptCalls]_vars

\* the relay has delivered a directed message back to the hook that sent
\* it, after the echo, and the log holds the echo alone
C3_Witness ==
    \E r \in received :
        /\ r.event = "receive_direct_message"
        /\ r.data.username = username[r.by]
        /\ \E i \in 1..Len(wire) : wire[i].from = r.by /\ wire[i].data = r.data
        /\ Len(messages[r.by]) = 1
        /\ messages[r.by][1].timestamp = r.data.timestamp

\* C4: degraded send.  A sendDirectMessage call whose lookup returned no
\* public key has transmitted the envelope with the body unmodified and
\* encrypted = false, has appended the plaintext to the sender's log as the
\* echo, and has handed its caller a warning: the call does not return
\* undefined.
C4_DegradedSend ==
    \A r \in returned :
        r.path = "no public key" =>
            /\ \E i \in 1..Len(wire) :
                  /\ wire[i].event = "send_direct_message"
                  /\ wire[i].from = r.by
                  /\ wire[i].data.timestamp = r.call
                  /\ ~wire[i].data.encrypted
                  /\ wire[i].data.message \in Bodies
                  /\ \E j \in 1..Len(messages[r.by]) :
                        /\ messages[r.by][j].timestamp = r.call
                        /\ messages[r.by][j].message = wire[i].data.message
            /\ r.value # Undefined

\* C5: an encryption failure aborts the send.  A sendDirectMessage call in
\* which encryptMessage threw after the recipient's key was resolved has
\* transmitted no envelope for its message.
C5_EncryptFailureAborts ==
    \A r \in returned :
        r.path = "encryptMessage threw" =>
            \A i \in 1..Len(wire) :
                ~(/\ wire[i].event = "send_direct_message"
                  /\ wire[i].from = r.by
                  /\ wire[i].data.timestamp = r.call)

\* C6: broadcast.  Every sendMessage step leaves the encryptMessage calls as
\* they were; with a socket and a message that is not blank it appends to
\* the wire exactly one send_message event with the body unmodified,
\* encrypted = false and isDM = false, whatever the state of the keys is;
\* with a blank message or without a socket it emits nothing.
C6_BroadcastInTheClear ==
    [][\A u \in Users, message \in Bodies :
            sendMessage(u, message) =>
                /\ encryptCalls' = encryptCalls
                /\ IF socketRef[u] /\ ~IsBlank(message)
                   THEN wire' = Append(wire,
                            [event |-> "send_message", from |-> u,
                             data |-> [username |-> username[u],
                                       message |-> message,
                                       encrypted |-> FALSE,
                                       isDM |-> FALSE,
                                       timestamp |-> nCalls']])
                   ELSE wire' = wire]_vars

\* a hook whose private key is loaded has broadcast "hi", and no
\* encryptMessage call was made
C6_Witness ==
    /\ encryptCalls = {}
    /\ \E i \in 1..Len(wire) :
          /\ wire[i].event = "send_message"
          /\ wire[i].data.message = Hi
          /\ e2eEnabledRef[wire[i].from]
          /\ privateKeyRef[wire[i].from] # Undefined

\* C7: no key, placeholder.  A step that receives an envelope flagged
\* encrypted, from a peer, while the hook holds no private key appends
\* exactly one entry to the log, and the body of the entry is the
\* placeholder, not the message received.
C7_PlaceholderWithoutKey ==
    [][\A r \in received' \ received :
            (/\ r.data.encrypted
             /\ r.key = Undefined
             /\ ~(r.event = "receive_direct_message"
                    /\ r.data.username = username[r.by])) =>
                /\ Len(messages'[r.by]) = Len(messages[r.by]) + 1
                /\ messages'[r.by][Len(messages'[r.by])].message
                       \in {UnableToDecryptMessage, UnableToDecryptDM}
                /\ messages'[r.by][Len(messages'[r.by])].message # r.data.message]_vars

\* C8: the receive path never throws.  A step that receives, from a peer,
\* an envelope flagged encrypted whose message is no JSON or lacks the
\* fields of a payload, and a step in which decryptMessage has failed,
\* appends exactly one entry with the placeholder as its body and the
\* directed flag of the envelope, or hands the payload to decryptMessage;
\* the handler goes on to the envelopes that follow.
C8_ReceiveNeverThrows ==
    [][/\ \A r \in received' \ received :
             LET payload == JSONParse(r.data.message)
                 directed == r.event = "receive_direct_message"
                 placeholder ==
                     Spread(r.data,
                         IF directed
                         THEN [message |-> UnableToDecryptDM, isDM |-> TRUE]
                         ELSE [message |-> UnableToDecryptMessage])
             IN  (/\ r.data.encrypted
                  /\ ~(directed /\ r.data.username = username[r.by])
                  /\ ~payload.ok \/ payload.val = NotAPayload) =>
                     \/ messages'[r.by] = Append(messages[r.by], placeholder)
                     \/ /\ messages' = messages
                        /\ Len(recvs'[r.by]) = Len(recvs[r.by]) + 1
                        /\ ~recvs'[r.by][Len(recvs'[r.by])].decrypted.ok
       /\ \A u \in Users :
             (/\ recvs[u] # <<>>
              /\ recvs'[u] = Tail(recvs[u])
              /\ ~Head(recvs[u]).decrypted.ok) =>
                 LET data == Head(recvs[u]).data
                     directed == Head(recvs[u]).event = "receive_direct_message"
                 IN  messages'[u] = Append(messages[u],
                         Spread(data,
                             IF directed
                             THEN [message |-> UnableToDecryptDM, isDM |-> TRUE]
                             ELSE [message |-> UnableToDecryptMessage]))]_vars

(***************************************************************************)
(* lib/crypto-test.ts: the test functions, one step for every await.  The  *)
(* record test holds the local variables of the function that runs.        *)
(***************************************************************************)
\* the messages the tests encrypt: the customMessage of testEncryption, and
\* in place of the one message testWrongKeyDecryption and testKeyStorage
\* have in their text, any of these
TestMessages ==
    {Text(<<>>), Hi, Text(<<"eacute">>), Text(<<"h", "eacute", " ">>)}

\* the seeds the random source hands to generateKeyPair; two calls draw
\* different seeds
Seeds == 1..MaxKeyPairs

Returned(fn, result, locals) ==
    Spread(locals, [fn |-> fn, pc |-> "returned", result |-> result])

\* the message testEncryption encrypts when it is called without one; it
\* has characters of more than one byte
DefaultMessage == Text(<<"h", "i", " ", "eacute">>)

\* testEncryption(customMessage) up to await decryptMessage: a missing and
\* an empty customMessage give way to the default (customMessage || ...);
\* the catch block returns false when encryptMessage throws
testEncryption(customMessage, seed) ==
    /\ test.pc = "idle"
    /\ LET keys == generateKeyPair(seed)
           originalMessage == IF customMessage \in {Undefined, Text(<<>>)}
                              THEN DefaultMessage ELSE customMessage
           encrypted == encryptMessage(originalMessage, keys.publicKey,
                                       Randomness(seed))
           locals == [keys |-> keys, originalMessage |-> originalMessage,
                      encrypted |-> encrypted]
       IN  test' = IF encrypted.ok
                   THEN Spread(locals, [fn |-> "testEncryption", pc |-> "decrypt"])
                   ELSE Returned("testEncryption", FALSE, locals)
    /\ UNCHANGED <<storeVars, hookVars, sideVars>>

\* testEncryption after await decryptMessage: the result is isMatch
testEncryptionDecrypted ==
    /\ test.fn = "testEncryption" /\ test.pc = "decrypt"
    /\ LET decrypted == decryptMessage(test.encrypted.val, test.keys.privateKey)
       IN  test' = Returned("testEncryption",
                            decrypted.ok /\ test.originalMessage = decrypted.val,
                            Spread(test, [decrypted |-> decrypted]))
    /\ UNCHANGED <<storeVars, hookVars, sideVars>>

\* testWrongKeyDecryption() up to the first await decryptMessage
testWrongKeyDecryption(message, seedA, seedB) ==
    /\ test.pc = "idle"
    /\ seedA # seedB
    /\ LET correctKeys == generateKeyPair(seedA)
           wrongKeys == generateKeyPair(seedB)
           encrypted == encryptMessage(message, correctKeys.publicKey,
                                       Randomness(seedA))
           locals == [correctKeys |-> correctKeys, wrongKeys |-> wrongKeys,
                      message |-> message, encrypted |-> encrypted]
       IN  test' = IF encrypted.ok
                   THEN Spread(locals, [fn |-> "testWrongKeyDecryption",
                                        pc |-> "wrongDecrypt"])
                   ELSE Returned("testWrongKeyDecryption", FALSE, locals)
    /\ UNCHANGED <<storeVars, hookVars, sideVars>>

\* testWrongKeyDecryption after the decryptMessage with the wrong key: a
\* plaintext is a security issue and returns false, an error goes on
testWrongKeyDecrypted ==
    /\ test.fn = "testWrongKeyDecryption" /\ test.pc = "wrongDecrypt"
    /\ LET wrongDecrypted == decryptMessage(test.encrypted.val,
                                            test.wrongKeys.privateKey)
           locals == Spread(test, [wrongDecrypted |-> wrongDecrypted])
       IN  test' = IF wrongDecrypted.ok
                   THEN Returned("testWrongKeyDecryption", FALSE, locals)
                   ELSE Spread(locals, [pc |-> "correctDecrypt"])
    /\ UNCHANGED <<storeVars, hookVars, sideVars>>

\* testWrongKeyDecryption after the decryptMessage with the correct key
testCorrectKeyDecrypted ==
    /\ test.fn = "testWrongKeyDecryption" /\ test.pc = "correctDecrypt"
    /\ LET correctDecrypted == decryptMessage(test.encrypted.val,
                                              test.correctKeys.privateKey)
       IN  test' = Returned("testWrongKeyDecryption",
                            correctDecrypted.ok
                                /\ correctDecrypted.val = test.message,
                            Spread(test, [correctDecrypted |-> correctDecrypted]))
    /\ UNCHANGED <<storeVars, hookVars, sideVars>>

\* testKeyStorage() on the device of u, after await clearKeys()
testKeyStorage(u, testMessage) ==
    /\ test.pc = "idle"
    /\ keyStore' = [keyStore EXCEPT ![u] = clearKeys(@)]
    /\ test' = [fn |-> "testKeyStorage", pc |-> "hasKeyPair", u |-> u,
                testMessage |-> testMessage]
    /\ UNCHANGED <<authStorage, directory, nKeys, hookVars, sideVars>>

\* testKeyStorage after await hasKeyPair(): keys that still exist return
\* false, otherwise a pair is generated and saved
testKeyStorageSave(seed) ==
    /\ test.fn = "testKeyStorage" /\ test.pc = "hasKeyPair"
    /\ LET u == test.u
           hasKeys == hasKeyPair(u)
           keys == generateKeyPair(seed)
       IN  IF hasKeys
           THEN /\ test' = Returned("testKeyStorage", FALSE,
                                    Spread(test, [hasKeys |-> hasKeys]))
                /\ UNCHANGED keyStore
           ELSE /\ keyStore' = [keyStore EXCEPT ![u] =
                        saveKeyPair(@, getCurrentUsername(u),
                                    keys.publicKey, keys.privateKey)]
                /\ test' = Spread(test, [pc |-> "getKeyPair", hasKeys |-> hasKeys,
                                         keys |-> keys])
    /\ UNCHANGED <<authStorage, directory, nKeys, hookVars, sideVars>>

\* testKeyStorage after await getKeyPair(), up to await decryptMessage
testKeyStorageRetrieved ==
    /\ test.fn = "testKeyStorage" /\ test.pc = "getKeyPair"
    /\ LET retrieved == getKeyPair(test.u)
           locals == Spread(test, [retrieved |-> retrieved])
       IN  IF retrieved = Undefined
           THEN test' = Returned("testKeyStorage", FALSE, locals)
           ELSE LET encrypted == encryptMessage(test.testMessage,
                                                retrieved.publicKey, Randomness(1))
                IN  test' = IF encrypted.ok
                            THEN Spread(locals, [pc |-> "decrypt",
                                                 encrypted |-> encrypted])
                            ELSE Returned("testKeyStorage", FALSE, locals)
    /\ UNCHANGED <<storeVars, hookVars, sideVars>>

\* testKeyStorage after await decryptMessage
testKeyStorageDecrypted ==
    /\ test.fn = "testKeyStorage" /\ test.pc = "decrypt"
    /\ LET decrypted == decryptMessage(test.encrypted.val,
                                       test.retrieved.privateKey)
           publicMatch == test.keys.publicKey = test.retrieved.publicKey
           privateMatch == test.keys.privateKey = test.retrieved.privateKey
           encryptionWorks == decrypted.ok /\ test.testMessage = decrypted.val
       IN  test' = Returned("testKeyStorage",
                            publicMatch /\ privateMatch /\ encryptionWorks,
                            Spread(test, [decrypted |-> decrypted]))
    /\ UNCHANGED <<storeVars, hookVars, sideVars>>

\* the test function has returned; another one may run
testReturned ==
    /\ test.pc = "returned"
    /\ test' = Idle
    /\ UNCHANGED <<storeVars, hookVars, sideVars>>

(***************************************************************************)
(* The version-1 client (RSA-OAEP + AES-GCM, keys exported as PEM): the    *)
(* scheme before the move to version 2.  A device that ran it holds its    *)
(* pair in the key store.                                                  *)
(***************************************************************************)
\* exportPublicKey / exportPrivateKey: the PEM text of a key of the pair
\* drawn from seed
Pem(label, seed) == [enc |-> "pem", label |-> label, seed |-> seed]

\* generateAndExportKeyPair() of version 1
generateAndExportKeyPairV1(seed) ==
    [publicKey |-> Pem("PUBLIC KEY", seed), privateKey |-> Pem("PRIVATE KEY", seed)]

\* importPublicKey / importPrivateKey of version 1: Err on a text that is
\* no PEM of the kind
importKeyV1(pem, label) ==
    IF pem.enc = "pem" /\ pem.label = label THEN Ok(pem.seed)
    ELSE Err("Invalid key format")

\* encryptMessage(message, recipientPublicKey) of version 1: the message
\* under a fresh AES key and iv, the AES key under the RSA public key
encryptMessageV1(message, recipientPublicKey, rnd) ==
    LET publicKey == importKeyV1(recipientPublicKey, "PUBLIC KEY")
    IN  IF ~publicKey.ok \/ message.enc # "text"
        THEN Err("Failed to encrypt message")
        ELSE Ok([encryptedKey |-> encodeBase64([kind |-> "rsa-oaep",
                                                to |-> publicKey.val,
                                                aesKey |-> rnd.seed]),
                 encryptedMessage |-> encodeBase64([kind |-> "aes-gcm",
                                                    aesKey |-> rnd.seed,
                                                    iv |-> rnd.nonce,
                                                    msg |-> Utf8Encode(message.chars)]),
                 iv |-> encodeBase64([kind |-> "iv", n |-> rnd.nonce]),
                 version |-> 1])

\* decryptMessage(payload, privateKey) of version 1
decryptMessageV1(payload, privateKey) ==
    LET privKey == importKeyV1(privateKey, "PRIVATE KEY")
        encryptedKey == decodeBase64(Field(payload, "encryptedKey"))
        encryptedMessage == decodeBase64(Field(payload, "encryptedMessage"))
        iv == decodeBase64(Field(payload, "iv"))
        failed == Err("Failed to decrypt message. Key mismatch or corrupted data.")
    IN  IF ~privKey.ok \/ ~encryptedKey.ok \/ ~encryptedMessage.ok \/ ~iv.ok
        THEN failed
        ELSE IF \/ encryptedKey.val.kind # "rsa-oaep"
                \/ encryptedMessage.val.kind # "aes-gcm"
                \/ iv.val.kind # "iv"
        THEN failed
        ELSE IF \/ encryptedKey.val.to # privKey.val
                \/ encryptedMessage.val.aesKey # encryptedKey.val.aesKey
                \/ encryptedMessage.val.iv # iv.val.n
        THEN failed
        ELSE LET decoded == Utf8Decode(encryptedMessage.val.msg)
             IN  IF decoded.ok THEN Ok(Text(decoded.val))
                 ELSE Ok(Text(<<"replacement">>))

\* testKeyStorage() of the version-1 client, up to the pair it saved: the
\* store is cleared and holds a version-1 pair for the current user
testKeyStorageV1(u, seed) ==
    /\ test.pc = "idle"
    /\ LET keys == generateAndExportKeyPairV1(seed) IN
       keyStore' = [keyStore EXCEPT ![u] =
           saveKeyPair(clearKeys(@), getCurrentUsername(u),
                       keys.publicKey, keys.privateKey)]
    /\ UNCHANGED <<authStorage, directory, nKeys, test, hookVars, sideVars>>

(***************************************************************************)
(* lib/crypto-test.ts: decryptWebSocketMessage.                            *)
(***************************************************************************)
\* the version numbers a payload may carry
PayloadVersions == {1, 2, 3}

\* the texts handed to decryptWebSocketMessage: a text that is no JSON, a
\* JSON object without the payload fields, what version 2 seals to a
\* generated public key, under every version number, and what version 1
\* seals to a version-1 public key
WebSocketPayloads ==
    {Hi, JSONStringify(NotAPayload)}
    \cup {JSONStringify([encryptMessage(Hi, generateKeyPair(k).publicKey,
                                        Randomness(0)).val EXCEPT !.version = v]) :
             k \in Seeds, v \in PayloadVersions}
    \cup {JSONStringify(encryptMessageV1(Hi, generateAndExportKeyPairV1(k).publicKey,
                                         Randomness(0)).val) : k \in Seeds}

\* decryptWebSocketMessage(encryptedPayloadString) on the device of u, up
\* to await getKeyPair(); result is Ok(the value returned) or Err(the
\* error thrown again by the catch block)
decryptWebSocketMessage(u, encryptedPayloadString) ==
    /\ test.pc = "idle"
    /\ LET payload == JSONParse(encryptedPayloadString)
           locals == [u |-> u, encryptedPayloadString |-> encryptedPayloadString]
       IN  test' = IF payload.ok
                   THEN Spread(locals, [fn |-> "decryptWebSocketMessage",
                                        pc |-> "getKeyPair",
                                        payload |-> payload.val])
                   ELSE Returned("decryptWebSocketMessage", payload, locals)
    /\ UNCHANGED <<storeVars, hookVars, sideVars>>

\* decryptWebSocketMessage after await getKeyPair()
decryptWebSocketMessageKeyPair ==
    /\ test.fn = "decryptWebSocketMessage" /\ test.pc = "getKeyPair"
    /\ LET keyPair == getKeyPair(test.u)
           locals == Spread(test, [keyPair |-> keyPair])
       IN  test' = IF keyPair = Undefined
                   THEN Returned("decryptWebSocketMessage",
                                 Err("No private key found"), locals)
                   ELSE Spread(locals, [pc |-> "decrypt"])
    /\ UNCHANGED <<storeVars, hookVars, sideVars>>

\* decryptWebSocketMessage after await decryptMessage
decryptWebSocketMessageDecrypted ==
    /\ test.fn = "decryptWebSocketMessage" /\ test.pc = "decrypt"
    /\ test' = Returned("decryptWebSocketMessage",
                        decryptMessage(test.payload, test.keyPair.privateKey),
                        test)
    /\ UNCHANGED <<storeVars, hookVars, sideVars>>

TestNext ==
    \/ \E u \in Users, uploaded \in BOOLEAN : handleSubmit(u, uploaded)
    \/ \E customMessage \in TestMessages \cup {Undefined}, seed \in Seeds :
            testEncryption(customMessage, seed)
    \/ testEncryptionDecrypted
    \/ \E message \in TestMessages, seedA \in Seeds, seedB \in Seeds :
            testWrongKeyDecryption(message, seedA, seedB)
    \/ testWrongKeyDecrypted
    \/ testCorrectKeyDecrypted
    \/ \E u \in Users, message \in TestMessages : testKeyStorage(u, message)
    \/ \E seed \in Seeds : testKeyStorageSave(seed)
    \/ testKeyStorageRetrieved
    \/ testKeyStorageDecrypted
    \/ testReturned
    \/ \E u \in Users, seed \in Seeds : testKeyStorageV1(u, seed)
    \/ \E u \in Users, encryptedPayloadString \in WebSocketPayloads :
            decryptWebSocketMessage(u, encryptedPayloadString)
    \/ decryptWebSocketMessageKeyPair
    \/ decryptWebSocketMessageDecrypted

TestSpec == Init /\ [][TestNext]_vars

(***************************************************************************)
(* Properties of the engine, checked on the test functions (TestSpec).     *)
(***************************************************************************)
\* C9: round trip.  For every plaintext and every pair generateKeyPair made,
\* decryptMessage(encryptMessage(P, pub), priv) returns exactly P: once
\* testEncryption has returned, encryptMessage has succeeded and decrypted is
\* the original message; and whenever testKeyStorage has read a pair back
\* from the key store, encryptMessage to its public key has succeeded, and
\* what decryptMessage returned under its private key is the message itself.
C9_RoundTrip ==
    /\ (test.fn = "testEncryption" /\ test.pc = "returned") =>
           /\ test.encrypted.ok
           /\ "decrypted" \in DOMAIN test
           /\ test.decrypted = Ok(test.originalMessage)
           /\ test.result
    /\ (test.fn = "testKeyStorage" /\ "retrieved" \in DOMAIN test
           /\ test.retrieved # Undefined) =>
           /\ "encrypted" \in DOMAIN test
           /\ test.encrypted.ok
           /\ test.pc = "returned" =>
                  /\ "decrypted" \in DOMAIN test
                  /\ test.decrypted = Ok(test.testMessage)

\* a logged-in user's testKeyStorage has decrypted a message with a two-byte
\* character under the pair read back from the store
C9_Witness ==
    /\ test.fn = "testKeyStorage" /\ test.pc = "returned"
    /\ "decrypted" \in DOMAIN test
    /\ authStorage[test.u] # ""
    /\ test.retrieved = test.keys
    /\ test.retrieved.privateKey = getPrivateKey(test.u)
    /\ test.testMessage = Text(<<"h", "eacute", " ">>)
    /\ test.decrypted = Ok(test.testMessage)

\* C10: wrong-key rejection.  For two distinct pairs A and B, decrypting
\* encryptMessage(P, pub_A) under priv_B fails with an error and yields no
\* plaintext, and decrypting the same payload under priv_A afterwards still
\* returns P.
C10_WrongKeyRejected ==
    /\ "wrongDecrypted" \in DOMAIN test =>
           /\ ~test.wrongDecrypted.ok
           /\ "val" \notin DOMAIN test.wrongDecrypted
    /\ (test.fn = "testWrongKeyDecryption" /\ test.pc = "returned") =>
           /\ test.encrypted.ok
           /\ "correctDecrypted" \in DOMAIN test
           /\ test.correctDecrypted = Ok(test.message)
           /\ test.result

\* testWrongKeyDecryption has returned after the wrong key failed and the
\* correct key decrypted the message
C10_Witness ==
    /\ test.fn = "testWrongKeyDecryption" /\ test.pc = "returned"
    /\ "correctDecrypted" \in DOMAIN test
    /\ test.correctKeys # test.wrongKeys
    /\ ~test.wrongDecrypted.ok
    /\ test.message = Text(<<"h", "eacute", " ">>)
    /\ test.correctDecrypted = Ok(test.message)

\* C11: version dispatch.  A payload whose version field is 2 is decoded
\* with the version-2 scheme, and no payload of another version is: when
\* decryptWebSocketMessage has returned a plaintext, which decryptMessage
\* opened with nacl.box.open, the version of the payload is 2.
C11_VersionDispatch ==
    (/\ test.fn = "decryptWebSocketMessage"
     /\ test.pc = "returned"
     /\ test.result.ok) =>
        Field(test.payload, "version") = ENCRYPTION_VERSION

\* C12: backward compatibility.  A payload the version-1 scheme produced
\* for the public key of the pair in the key store still decrypts to its
\* plaintext: when decryptWebSocketMessage has returned for a payload that
\* the version-1 decryptMessage opens under the stored private key, it has
\* returned that plaintext.
C12_BackwardCompatible ==
    (/\ test.fn = "decryptWebSocketMessage"
     /\ test.pc = "returned"
     /\ "keyPair" \in DOMAIN test
     /\ test.keyPair # Undefined
     /\ Field(test.payload, "version") = 1
     /\ decryptMessageV1(test.payload, test.keyPair.privateKey).ok) =>
        test.result = decryptMessageV1(test.payload, test.keyPair.privateKey)

(***************************************************************************)
(* app/e2e-test/page.tsx: the page that shows the readiness of the keys,   *)
(* sets a pair up (runAllTests) and clears the store.  The key store       *)
(* serves its requests in the order they were made, so the check made at   *)
(* the mount settles before the requests of the buttons do.                *)
(***************************************************************************)
\* the page is shown to the logged-in user: the first render and the effect
\* that calls checkE2EStatus()
E2ETestPage(u) ==
    /\ ~page[u].mounted
    /\ authStorage[u] # ""
    /\ page' = [page EXCEPT ![u] = [Unmounted EXCEPT !.mounted = TRUE,
                                                     !.check = TRUE]]
    /\ UNCHANGED <<storeVars, hookVars, test, requests, recipientKeyCache, peerVars>>

\* checkE2EStatus() after await getKeyPair(): rejected tells that the key
\* store failed
checkE2EStatus(u, rejected) ==
    /\ page[u].check
    /\ LET keys == getKeyPair(u) IN
       page' = [page EXCEPT ![u] =
           IF ~rejected /\ keys # Undefined
           THEN [@ EXCEPT !.check = FALSE, !.localKeys = keys, !.e2eStatus = "ready"]
           ELSE [@ EXCEPT !.check = FALSE, !.e2eStatus = "not_setup"]]
    /\ UNCHANGED <<storeVars, hookVars, test, requests, recipientKeyCache, peerVars>>

\* runAllTests() up to await saveKeyPair(keys.publicKey, keys.privateKey):
\* the pair is generated, a test message encrypted and decrypted
runAllTests(u) ==
    /\ page[u].mounted
    /\ page[u].run = "idle"
    /\ nKeys < MaxKeyPairs
    /\ nKeys' = nKeys + 1
    /\ page' = [page EXCEPT ![u] = [@ EXCEPT !.run = "saveKeyPair",
                                             !.keys = generateKeyPair(nKeys + 1)]]
    /\ UNCHANGED <<authStorage, keyStore, directory, hookVars, test, requests,
                   recipientKeyCache, peerVars>>

\* runAllTests after await saveKeyPair: the pair is in the store, or, when
\* the store rejected, the catch block ends the run
runAllTestsSaved(u, rejected) ==
    /\ page[u].run = "saveKeyPair"
    /\ ~page[u].check
    /\ IF rejected
       THEN /\ page' = [page EXCEPT ![u] = [@ EXCEPT !.run = "idle"]]
            /\ UNCHANGED keyStore
       ELSE /\ keyStore' = [keyStore EXCEPT ![u] =
                   saveKeyPair(@, getCurrentUsername(u),
                               page[u].keys.publicKey, page[u].keys.privateKey)]
            /\ page' = [page EXCEPT ![u] = [@ EXCEPT !.run = "getKeyPair"]]
    /\ UNCHANGED <<authStorage, directory, nKeys, hookVars, test, requests,
                   recipientKeyCache, peerVars>>

\* runAllTests after await getKeyPair(), up to await
\* keysApi.updatePublicKey(keys.publicKey): what was retrieved decides the
\* result shown for the storage test only
runAllTestsRetrieved(u) ==
    /\ page[u].run = "getKeyPair"
    /\ page' = [page EXCEPT ![u] = [@ EXCEPT !.run = "updatePublicKey",
                                             !.localKeys = page[u].keys,
                                             !.e2eStatus = "ready"]]
    /\ requests' = requests \cup
           {Request(u, "updatePublicKey", page[u].keys.publicKey)}
    /\ UNCHANGED <<storeVars, hookVars, test, recipientKeyCache, peerVars>>

\* runAllTests after await keysApi.updatePublicKey: uploaded tells whether
\* the directory took the key
runAllTestsUploaded(u, uploaded) ==
    /\ page[u].run = "updatePublicKey"
    /\ page' = [page EXCEPT ![u] = [@ EXCEPT !.run = "idle"]]
    /\ directory' = IF uploaded
                    THEN updatePublicKey(getCurrentUsername(u), page[u].keys.publicKey)
                    ELSE directory
    /\ UNCHANGED <<authStorage, keyStore, nKeys, hookVars, test, requests,
                   recipientKeyCache, peerVars>>

\* a handleClearKeys that checks the keys again after it cleared them
handleClearKeysRecheck(u) ==
    /\ page[u].mounted
    /\ ~page[u].check
    /\ keyStore' = [keyStore EXCEPT ![u] = clearKeys(@)]
    /\ page' = [page EXCEPT ![u] = [@ EXCEPT !.localKeys = Undefined,
                                             !.check = TRUE,
                                             !.e2eStatus = "checking"]]
    /\ UNCHANGED <<authStorage, directory, nKeys, hookVars, test, requests,
                   recipientKeyCache, peerVars>>

\* handleClearKeys(): await clearKeys(), then the state is reset
handleClearKeys(u) ==
    /\ page[u].mounted
    /\ ~page[u].check
    /\ keyStore' = [keyStore EXCEPT ![u] = clearKeys(@)]
    /\ page' = [page EXCEPT ![u] = [@ EXCEPT !.localKeys = Undefined,
                                             !.e2eStatus = "not_setup"]]
    /\ UNCHANGED <<authStorage, directory, nKeys, hookVars, test, requests,
                   recipientKeyCache, peerVars>>

\* the readiness of the keys of a device: login and setup, the hook's key
\* load, the e2e-test page, and the envelopes peers send to the hook
PageNext ==
    \/ \E u \in Users, uploaded \in BOOLEAN : handleSubmit(u, uploaded)
    \/ \E u \in Users, name \in Users \cup {""} : Mount(u, name)
    \/ \E u \in Users : UsernameChange(u)
    \/ \E u \in Users, rejected \in BOOLEAN : loadPrivateKey(u, rejected)
    \/ \E u \in Users : E2ETestPage(u)
    \/ \E u \in Users, rejected \in BOOLEAN : checkE2EStatus(u, rejected)
    \/ \E u \in Users : runAllTests(u)
    \/ \E u \in Users, rejected \in BOOLEAN : runAllTestsSaved(u, rejected)
    \/ \E u \in Users : runAllTestsRetrieved(u)
    \/ \E u \in Users, uploaded \in BOOLEAN : runAllTestsUploaded(u, uploaded)
    \/ \E u \in Users : handleClearKeys(u)
    \/ \E u \in Users : \E data \in BroadcastEvents(u) : receive_message(u, data)
    \/ \E u \in Users : \E data \in DirectEvents(u) : receive_direct_message(u, data)
    \/ \E u \in Users : receiveDecrypted(u)

PageSpec == Init /\ [][PageNext]_vars

E2ESetupResult(u, user, uploaded) ==
    IF StoredKeyPair(keyStore[u], user) # Undefined
    THEN [success |-> TRUE, isNewSetup |-> FALSE, error |-> Undefined]
    ELSE IF uploaded
    THEN [success |-> TRUE, isNewSetup |-> TRUE, error |-> Undefined]
    ELSE [success |-> TRUE, isNewSetup |-> TRUE,
          error |-> Text(<<"Keys generated but failed to sync to server">>)]

\* C14: persist before ready.  When a setup generates a pair, the pair is in
\* the key store and its public key in the directory before the setup
\* reports readiness: a login whose setupE2EEncryption generated a pair and
\* returned success has left the pair in the store and the public key in
\* the directory, and the step in which runAllTests sets the page to
\* 'ready' leaves the pair it generated in the store and its public key in
\* the directory.
C14_PersistBeforeReady ==
    [][\A u \in Users :
         /\ \A uploaded \in BOOLEAN :
               (/\ handleSubmit(u, uploaded)
                /\ E2ESetupResult(u, u, uploaded).isNewSetup
                /\ E2ESetupResult(u, u, uploaded).success) =>
                   /\ StoredKeyPair(keyStore'[u], u) = generateKeyPair(nKeys')
                   /\ directory'[u] = generateKeyPair(nKeys').publicKey
         /\ (/\ page[u].run = "getKeyPair"
             /\ page'[u].run # "getKeyPair"
             /\ page'[u].e2eStatus = "ready") =>
                /\ StoredKeyPair(keyStore'[u], authStorage[u]) = page[u].keys
                /\ directory'[authStorage[u]] = page[u].keys.publicKey]_vars

\* C15: scenario B.  Once clearKeys() has emptied the key store, an
\* encrypted envelope that reaches a hook which had loaded the cleared key
\* finds the readiness reported as not set up, and no plaintext is produced
\* from the cleared key: the handler hands decryptMessage nothing that it
\* opens.
C15_ScenarioB ==
    [][\A r \in received' \ received :
         (/\ r.data.encrypted
          /\ r.key # Undefined
          /\ keyStore[r.by] = EmptyStore) =>
             /\ e2eStatus[r.by] # "enabled"
             /\ \/ recvs'[r.by] = recvs[r.by]
                \/ ~recvs'[r.by][Len(recvs'[r.by])].decrypted.ok]_vars

\* C16: a failure of the key store is surfaced.  A key load in which the
\* key store failed does not end in the state a load ends in when the store
\* holds no key: loadPrivateKey does not set 'disabled', and checkE2EStatus
\* does not set 'not_setup'.
C16_StoreFailureSurfaced ==
    [][\A u \in Users :
         /\ loadPrivateKey(u, TRUE) => e2eStatus'[u] # "disabled"
         /\ checkE2EStatus(u, TRUE) => page'[u].e2eStatus # "not_setup"]_vars

\* C29: the readiness the hook reports agrees with the key it holds.  In
\* every state e2eStatus is 'enabled' exactly when privateKeyRef.current
\* holds a key and e2eEnabledRef.current is set, and a key the hook holds is
\* the private key the key store holds for the username of the hook.
C29_ReadinessAgreesWithKey ==
    \A u \in Users :
        /\ e2eStatus[u] = "enabled"
               <=> (privateKeyRef[u] # Undefined /\ e2eEnabledRef[u])
        /\ privateKeyRef[u] # Undefined =>
               privateKeyRef[u] = StoredPrivateKey(keyStore[u], username[u])

(***************************************************************************)
(* Several identities on one device: a user logs out and another one logs  *)
(* in, and the test of the key store runs for whoever is logged in.        *)
(***************************************************************************)
\* handleLogout() of the chat page: the auth store's logout(), persisted to
\* localStorage, and the way to the login page, which ends the hook
handleLogout(u) ==
    /\ authStorage[u] # ""
    /\ authStorage' = [authStorage EXCEPT ![u] = ""]
    /\ socketRef' = [socketRef EXCEPT ![u] = FALSE]
    /\ username' = [username EXCEPT ![u] = ""]
    /\ privateKeyRef' = [privateKeyRef EXCEPT ![u] = Undefined]
    /\ e2eEnabledRef' = [e2eEnabledRef EXCEPT ![u] = FALSE]
    /\ e2eStatus' = [e2eStatus EXCEPT ![u] = "loading"]
    /\ messages' = [messages EXCEPT ![u] = <<>>]
    /\ loads' = [loads EXCEPT ![u] = 0]
    /\ sends' = [sends EXCEPT ![u] = {}]
    /\ recvs' = [recvs EXCEPT ![u] = <<>>]
    /\ wire' = Left(u)
    /\ isConnected' = [isConnected EXCEPT ![u] = FALSE]
    /\ p2pEvents' = [p2pEvents EXCEPT ![u] = <<>>]
    /\ UNCHANGED <<keyStore, directory, nKeys, returned, encryptCalls,
                   decryptCalls, nCalls, received, test, page, requests,
                   recipientKeyCache, resyncs, console>>

StoreNext ==
    \/ \E u \in Users, name \in Users, uploaded \in BOOLEAN :
            handleSubmitAs(u, name, uploaded)
    \/ \E u \in Users : handleLogout(u)
    \/ \E u \in Users : testKeyStorage(u, Hi)
    \/ \E seed \in Seeds : testKeyStorageSave(seed)
    \/ testKeyStorageRetrieved
    \/ testKeyStorageDecrypted
    \/ testReturned

StoreSpec == Init /\ [][StoreNext]_vars

(***************************************************************************)
(* Properties of the key store (StoreSpec).                                *)
(***************************************************************************)
\* C17: the round trip of the key store.  For the identity that is active,
\* hasKeyPair() is false in the state clearKeys() leaves, and in the state
\* saveKeyPair(pub, priv) leaves hasKeyPair() is true and getKeyPair() is
\* exactly {pub, priv}.
C17_KeyStoreRoundTrip ==
    [][/\ \A u \in Users, message \in TestMessages :
             testKeyStorage(u, message) => ~hasKeyPair(u)'
       /\ \A seed \in Seeds :
             (testKeyStorageSave(seed) /\ test'.pc = "getKeyPair") =>
                 /\ hasKeyPair(test.u)'
                 /\ getKeyPair(test.u)' = generateKeyPair(seed)]_vars

\* testKeyStorage of a logged-in user, whose store held another pair before,
\* has cleared the store and saved the pair it generated
C17_Witness ==
    /\ test.fn = "testKeyStorage" /\ test.pc = "getKeyPair"
    /\ authStorage[test.u] # ""
    /\ nKeys > 0
    /\ ~test.hasKeys
    /\ hasKeyPair(test.u)
    /\ getKeyPair(test.u) = test.keys

\* C18: identity isolation of the key store.  For two distinct identities A
\* and B of one device, no step that changes the key store while A is
\* active changes the pair getKeyPair() returns when B is active.
C18_IdentityIsolation ==
    [][\A u \in Users, B \in Users :
         (/\ keyStore'[u] # keyStore[u]
          /\ authStorage'[u] \in Users
          /\ B \notin {authStorage[u], authStorage'[u]}) =>
             StoredKeyPair(keyStore'[u], B) = StoredKeyPair(keyStore[u], B)]_vars

(***************************************************************************)
(* lib/useSocket.ts: the events of the socket that carry no message, and   *)
(* what the clients send (WireSpec).                                       *)
(***************************************************************************)
\* the events named event that the hook of u has emitted
EmittedBy(u, event) ==
    {i \in 1..Len(wire) : wire[i].from = u /\ wire[i].event = event}

\* the events named event that the hooks have emitted
Events(event) == {i \in 1..Len(wire) : wire[i].event = event}

\* the handler of 'connect': join with the username of the render, and,
\* from the timer it sets, get_p2p_info
connect(u) ==
    /\ socketRef[u]
    /\ Cardinality(Events("join")) < MaxConnects
    /\ isConnected' = [isConnected EXCEPT ![u] = TRUE]
    /\ wire' = Append(Emit(u, "join", [username |-> username[u]]),
                      [event |-> "get_p2p_info", from |-> u, data |-> Undefined])
    /\ UNCHANGED <<storeVars, socketRef, username, privateKeyRef, e2eEnabledRef,
                   e2eStatus, messages, loads, sends, recvs, returned,
                   encryptCalls, decryptCalls, nCalls, received, test, page,
                   requests, recipientKeyCache, p2pEvents, resyncs, console>>

\* the peer the relay reports
PeerId == "peer"

\* the lines the peer_connected handler and the callbacks of its promise
\* write to the console
NewPeerConnected == <<"New peer connected:", PeerId>>
AutoResyncKey == <<"Auto-resync key to new peer:", PeerId>>

\* the handler of 'peer_connected': the event is added to p2pEvents,
\* get_p2p_info is emitted, and with e2eEnabledRef.current set
\* keysApi.resyncKey() is called, without an argument, and not awaited
peer_connected(u) ==
    /\ socketRef[u]
    /\ Cardinality(Events("get_p2p_info"))
           < MaxPeerEvents + Cardinality(Events("join"))
    /\ console' = [console EXCEPT ![u] = Append(@, NewPeerConnected)]
    /\ p2pEvents' = [p2pEvents EXCEPT ![u] =
           Append(@, [type |-> "peer_connected", peer_id |-> PeerId])]
    /\ wire' = Emit(u, "get_p2p_info", Undefined)
    /\ IF e2eEnabledRef[u]
       THEN /\ requests' = requests \cup {Request(u, "resyncKey", Undefined)}
            /\ resyncs' = [resyncs EXCEPT ![u] = @ + 1]
       ELSE UNCHANGED <<requests, resyncs>>
    /\ UNCHANGED <<storeVars, socketRef, username, privateKeyRef, e2eEnabledRef,
                   e2eStatus, messages, loads, sends, recvs, returned,
                   encryptCalls, decryptCalls, nCalls, received, test, page,
                   recipientKeyCache, isConnected>>

WireNext ==
    \/ \E u \in Users, uploaded \in BOOLEAN : handleSubmit(u, uploaded)
    \/ \E u \in Users, name \in Users \cup {""} : Mount(u, name)
    \/ \E u \in Users : UsernameChange(u)
    \/ \E u \in Users, rejected \in BOOLEAN : loadPrivateKey(u, rejected)
    \/ \E u \in Users : connect(u)
    \/ \E u \in Users : peer_connected(u)
    \/ \E u \in Users, message \in Bodies : sendMessage(u, message)
    \/ \E u \in Users, message \in Bodies, recipient \in Names \cup {""} :
            sendDirectMessage(u, message, recipient)
    \/ \E u \in Users : \E call \in sends[u], networkFails \in BOOLEAN :
            sendDirectMessageLookup(u, call, networkFails)
    \/ \E u \in Users : \E call \in sends[u] : sendDirectMessageEncrypted(u, call)

WireSpec == Init /\ [][WireNext]_vars

\* the private keys of the pairs generateKeyPair may hand out, and their
\* public keys together with the one the directory holds from the start
PrivateKeys == {generateKeyPair(k).privateKey : k \in 1..MaxKeyPairs}
PublicKeys == {generateKeyPair(k).publicKey : k \in 1..MaxKeyPairs}
                  \cup {LegacyPublicKey}

\* C19: the private key never leaves the device.  No event a hook emitted
\* and no request a client sent to the directory holds a private key, in a
\* field or in the bytes of a payload; and what is sent is a function of
\* the username, the message, the recipient, the recipient's public key and
\* the random values drawn, not of the value of the private key: join and
\* leave carry the username alone, get_p2p_info carries nothing,
\* send_message carries the message typed, send_direct_message the message
\* typed or the payload encryptMessage makes of it for a public key, a key
\* publish carries a public key, a key lookup the recipient.
C19_PrivateKeyStaysLocal ==
    /\ \A i \in 1..Len(wire) :
          LET w == wire[i] IN
          CASE w.event \in {"join", "leave"} ->
                   /\ DOMAIN w.data = {"username"}
                   /\ w.data.username \in Users \cup {""}
            [] w.event = "get_p2p_info" -> w.data = Undefined
            [] w.event = "send_message" ->
                   /\ DOMAIN w.data =
                          {"username", "message", "encrypted", "isDM", "timestamp"}
                   /\ w.data.message \in Bodies
            [] w.event = "send_direct_message" ->
                   /\ DOMAIN w.data =
                          {"username", "recipient", "message", "encrypted",
                           "timestamp"}
                   /\ w.data.message \notin PrivateKeys
                   /\ \/ w.data.message \in Bodies
                      \/ \E message \in Bodies, publicKey \in PublicKeys :
                            LET sealed == encryptMessage(message, publicKey,
                                              Randomness(w.data.timestamp))
                            IN  /\ sealed.ok
                                /\ w.data.message = JSONStringify(sealed.val)
            [] OTHER -> FALSE
    /\ \A r \in requests :
          /\ r.body \notin PrivateKeys
          /\ \A u \in Users : privateKeyRef[u] = Undefined \/ r.body # privateKeyRef[u]
          /\ CASE r.api = "updatePublicKey" -> r.body \in PublicKeys
               [] r.api = "getPublicKey" -> r.body \in {Path(n) : n \in Names}
               [] r.api = "resyncKey" -> r.body = Undefined
               [] OTHER -> FALSE

\* a hook that holds its private key has joined, has sent a broadcast or an
\* encrypted directed message, and its client has published a key and
\* looked one up
C19_Witness ==
    \E u \in Users :
        /\ privateKeyRef[u] \in PrivateKeys
        /\ EmittedBy(u, "join") # {}
        /\ \E i \in EmittedBy(u, "send_direct_message") : wire[i].data.encrypted
        /\ \E r \in requests : r.by = u /\ r.api = "updatePublicKey"
        /\ \E r \in requests : r.by = u /\ r.api = "getPublicKey"

(***************************************************************************)
(* lib/keyStore.ts: the cache of recipient keys.  useSocket.ts imports     *)
(* getCachedRecipientKey and cacheRecipientKey and calls neither, so no    *)
(* step of the client reads or writes the cache.                           *)
(***************************************************************************)
\* cacheRecipientKey(username, publicKey): the map after the set
cacheRecipientKey(cache, name, publicKey) ==
    [cache EXCEPT ![toLowerCase(name)] = publicKey]

\* getCachedRecipientKey(username): Undefined for a missing entry
getCachedRecipientKey(cache, name) == cache[toLowerCase(name)]

\* clearRecipientKeyCache()
clearRecipientKeyCache(cache) == [n \in Names |-> Undefined]

\* C20: cache-first key resolution.  A directed send asks the directory
\* for the recipient's key only when the cache of the device has no entry
\* for the recipient, and a send that has resolved the key has stored it in
\* the cache before it uses it: while encryptMessage runs for a send, and
\* once its encrypted envelope is out, the cache of the sender holds a key
\* under the recipient's name, so that a second send to the recipient
\* finds it there.
C20_CacheFirst ==
    [][/\ \A u \in Users : \A call \in sends'[u] :
             call.pc = "encryptMessage" =>
                 getCachedRecipientKey(recipientKeyCache'[u], call.recipient)
                     # Undefined
       /\ \A i \in 1..Len(wire') :
             (wire'[i].event = "send_direct_message" /\ wire'[i].data.encrypted) =>
                 getCachedRecipientKey(recipientKeyCache'[wire'[i].from],
                                       wire'[i].data.recipient) # Undefined
       /\ \A r \in requests' \ requests :
             r.api = "getPublicKey" =>
                 getCachedRecipientKey(recipientKeyCache[r.by], r.body.username)
                     = Undefined]_vars

(***************************************************************************)
(* The life of a key pair on a device: logins and logouts of several       *)
(* users, the hook with its sends, receives and peer events, and nothing   *)
(* that clears the store; the directory takes every key it is sent         *)
(* (LifecycleSpec).                                                        *)
(***************************************************************************)
LifecycleNext ==
    \/ \E u \in Users, name \in Users : handleSubmitAs(u, name, TRUE)
    \/ \E u \in Users : handleLogout(u)
    \/ \E u \in Users : Mount(u, authStorage[u])
    \/ \E u \in Users, rejected \in BOOLEAN : loadPrivateKey(u, rejected)
    \/ \E u \in Users : peer_connected(u)
    \/ \E u \in Users : \E recipient \in Users \ {u} :
            sendDirectMessage(u, Hi, recipient)
    \/ \E u \in Users : \E call \in sends[u] :
            sendDirectMessageLookup(u, call, FALSE)
    \/ \E u \in Users : \E call \in sends[u] : sendDirectMessageEncrypted(u, call)
    \/ \E u \in Users :
          \E data \in {d \in Emitted("send_direct_message") : d.recipient = u} :
            receive_direct_message(u, data)
    \/ \E u \in Users : receiveDecrypted(u)

LifecycleSpec == Init /\ [][LifecycleNext]_vars

(***************************************************************************)
(* Properties of the life of a key pair (LifecycleSpec).                   *)
(***************************************************************************)
\* the identities a key store may hold a pair for: the users, and the
\* anonymous identity of the ids 'user-private-key' / 'user-public-key'
Identities == Users \cup {""}

disconnect(u) ==
    /\ socketRef[u]
    /\ isConnected[u]
    /\ isConnected' = [isConnected EXCEPT ![u] = FALSE]
    /\ UNCHANGED <<storeVars, hookVars, test, page, requests, recipientKeyCache,
                   p2pEvents, resyncs, console>>

\* what a keysApi.resyncKey() promise settles with: { data }, { error }, or
\* a rejection when the request fails
ResyncOutcomes == {"data", "error", "rejected"}

\* the callbacks on the promise of keysApi.resyncKey(): then() writes a
\* line when result.data is set, catch(() => { }) does nothing
resyncKeySettled(u, outcome) ==
    /\ resyncs[u] > 0
    /\ resyncs' = [resyncs EXCEPT ![u] = @ - 1]
    /\ console' = IF outcome = "data"
                  THEN [console EXCEPT ![u] = Append(@, AutoResyncKey)]
                  ELSE console
    /\ UNCHANGED <<storeVars, hookVars, test, page, requests, recipientKeyCache,
                   isConnected, p2pEvents>>

PeerNext ==
    \/ \E u \in Users, uploaded \in BOOLEAN : handleSubmit(u, uploaded)
    \/ \E u \in Users : Mount(u, authStorage[u])
    \/ \E u \in Users, rejected \in BOOLEAN : loadPrivateKey(u, rejected)
    \/ \E u \in Users : connect(u)
    \/ \E u \in Users : disconnect(u)
    \/ \E u \in Users : peer_connected(u)
    \/ \E u \in Users, outcome \in ResyncOutcomes : resyncKeySettled(u, outcome)
    \/ \E u \in Users : E2ETestPage(u)
    \/ \E u \in Users, rejected \in BOOLEAN : checkE2EStatus(u, rejected)
    \/ \E u \in Users : handleClearKeys(u)
    \/ \E u \in Users : \E data \in {d \in BroadcastEvents(u) : ~d.encrypted} :
            receive_message(u, data)

PeerSpec == Init /\ [][PeerNext]_vars

(***************************************************************************)
(* Properties of the peer events (PeerSpec).                               *)
(***************************************************************************)
\* C22: the key is published again for a new peer exactly when the keys are
\* ready.  A peer_connected event that reaches a hook whose readiness is
\* 'enabled' starts one keysApi.resyncKey(), an event that reaches a hook
\* whose readiness is 'loading' or 'disabled' starts none, and none is
\* started once the keys of the device have been cleared.
C22_ResyncWhenReady ==
    [][\A u \in Users :
         Len(p2pEvents'[u]) > Len(p2pEvents[u]) =>
             /\ resyncs'[u] = resyncs[u] + (IF e2eStatus[u] = "enabled" THEN 1 ELSE 0)
             /\ e2eStatus[u] = "enabled" =>
                    requests' = requests \cup {Request(u, "resyncKey", Undefined)}
             /\ e2eStatus[u] # "enabled" => requests' = requests
             /\ keyStore[u] = EmptyStore => resyncs'[u] = resyncs[u]]_vars

\* C23: a resync that fails is not fatal and can be seen.  When the promise
\* of keysApi.resyncKey() settles with an error or is rejected, isConnected,
\* the message log and the p2pEvents of the hook stay as they are, the
\* socket with its handlers stays, and the failure is written to the
\* console.
C23_ResyncFailureObservable ==
    [][\A u \in Users :
         (resyncKeySettled(u, "error") \/ resyncKeySettled(u, "rejected")) =>
             /\ isConnected'[u] = isConnected[u]
             /\ messages'[u] = messages[u]
             /\ p2pEvents'[u] = p2pEvents[u]
             /\ socketRef'[u] = socketRef[u]
             /\ console'[u] # console[u]]_vars

(***************************************************************************)
(* Properties of the message log (Spec).                                   *)
(***************************************************************************)
\* the deliveries to the hook of u that are not directed messages of its own
Arrivals(u) ==
    {r \in received :
        /\ r.by = u
        /\ ~(r.event = "receive_direct_message" /\ r.data.username = u)}

\* the directed sends of the hook of u that have emitted their envelope
Echoed(u) == {r \in returned : r.by = u}

\* C24: the message log is append-only.  A step changes the log of a hook
\* only by adding one entry at its end; an envelope that is not the hook's
\* own directed message adds the envelope as received or the placeholder
\* at once, or exactly one entry, with the decrypted body or the
\* placeholder, when decryptMessage has settled, so that the log holds one
\* entry for every such envelope that is not awaiting decryptMessage and
\* one for every directed send.
C24_AppendOnly ==
    [][\A u \in Users :
         /\ messages'[u] # messages[u] =>
                /\ Len(messages'[u]) = Len(messages[u]) + 1
                /\ SubSeq(messages'[u], 1, Len(messages[u])) = messages[u]
         /\ \A r \in received' \ received :
               (r.by = u /\ r \in Arrivals(u)') =>
                   \/ /\ Len(recvs'[u]) = Len(recvs[u]) + 1
                      /\ messages'[u] = messages[u]
                   \/ /\ recvs'[u] = recvs[u]
                      /\ Len(messages'[u]) = Len(messages[u]) + 1
                      /\ LET entry == messages'[u][Len(messages'[u])] IN
                         /\ entry.username = r.data.username
                         /\ entry.timestamp = r.data.timestamp
                         /\ entry.message \in
                                {r.data.message, UnableToDecryptMessage,
                                 UnableToDecryptDM}
         /\ Len(recvs'[u]) < Len(recvs[u]) =>
                /\ Len(recvs'[u]) = Len(recvs[u]) - 1
                /\ Len(messages'[u]) = Len(messages[u]) + 1
                /\ LET entry == messages'[u][Len(messages'[u])]
                       recv == Head(recvs[u])
                   IN  /\ entry.username = recv.data.username
                       /\ entry.timestamp = recv.data.timestamp
                       /\ entry.message =
                              IF recv.decrypted.ok THEN recv.decrypted.val
                              ELSE IF recv.event = "receive_message"
                              THEN UnableToDecryptMessage
                              ELSE UnableToDecryptDM
         /\ Len(messages'[u]) + Len(recvs'[u])
                = Cardinality(Arrivals(u)') + Cardinality(Echoed(u)')]_vars

\* the log of a hook holds two entries, the second one the decrypted body of
\* an encrypted envelope that the hook received with its key loaded
C24_Witness ==
    \E u \in Users : \E r \in Arrivals(u) :
        /\ r.data.encrypted
        /\ r.key # Undefined
        /\ recvs[u] = <<>>
        /\ Len(messages[u]) = 2
        /\ messages[u][2].timestamp = r.data.timestamp
        /\ messages[u][2].message = Hi

SendNext ==
    \/ \E u \in Users, uploaded \in BOOLEAN : handleSubmit(u, uploaded)
    \/ \E u \in Users, name \in Users \cup {""} : Mount(u, name)
    \/ \E u \in Users : UsernameChange(u)
    \/ \E u \in Users, rejected \in BOOLEAN : loadPrivateKey(u, rejected)
    \/ \E u \in Users, message \in Bodies, recipient \in Names \cup {""} :
            /\ nCalls < MaxSends
            /\ sendDirectMessageCall(u, message, recipient)
    \/ \E u \in Users : \E call \in sends[u], networkFails \in BOOLEAN :
            sendDirectMessageLookup(u, call, networkFails)
    \/ \E u \in Users : \E call \in sends[u] : sendDirectMessageEncrypted(u, call)

SendSpec == Init /\ [][SendNext]_vars

(***************************************************************************)
(* Properties of the directed sends (SendSpec).                            *)
(***************************************************************************)
\* the send_direct_message events the hook of u has emitted for the call
\* made at timestamp
DirectEmits(u, timestamp) ==
    {i \in EmittedBy(u, "send_direct_message") : wire[i].data.timestamp = timestamp}

\* the entries of the log of u that are the local echo of the call made at
\* timestamp
Echoes(u, timestamp) ==
    {i \in 1..Len(messages[u]) :
        /\ messages[u][i].timestamp = timestamp
        /\ "recipient" \in DOMAIN messages[u][i]
        /\ messages[u][i].username = username[u]}

\* C26: one envelope and one echo for every directed send.  A call with a
\* socket, a message that is not blank and a recipient either is suspended
\* at an await, with nothing emitted and nothing echoed, or has emitted
\* exactly one send_direct_message and added exactly one entry to the log;
\* the step that ends a call, on whichever path, emits the envelope for the
\* recipient and appends the echo, whose body is the plaintext and which is
\* flagged directed and names the recipient; a call without a socket, with
\* a blank message or without a recipient emits nothing and leaves the log
\* as it is.
C26_OneEnvelopeOneEcho ==
    [][\A u \in Users :
         /\ \A message \in Bodies, recipient \in Names \cup {""} :
               (/\ nCalls' = nCalls + 1
                /\ sendDirectMessageCall(u, message, recipient)) =>
                   LET call == [username |-> username[u], message |-> message,
                                recipient |-> recipient, timestamp |-> nCalls']
                   IN  IF ~socketRef[u] \/ IsBlank(message) \/ recipient = ""
                       THEN /\ wire' = wire
                            /\ messages' = messages
                            /\ sends' = sends
                       ELSE \/ /\ wire' = wire
                               /\ messages' = messages
                               /\ \E c \in sends'[u] \ sends[u] :
                                     c.timestamp = nCalls'
                            \/ /\ sends' = sends
                               /\ Len(wire') = Len(wire) + 1
                               /\ wire'[Len(wire')].data.message = message
                               /\ wire'[Len(wire')].data.recipient = recipient
                               /\ messages'[u] = Append(messages[u], Echo(call))
         /\ \A call \in sends[u] :
               (\A c \in sends'[u] : c.id # call.id) =>
                   /\ Len(wire') = Len(wire) + 1
                   /\ wire'[Len(wire')].from = u
                   /\ wire'[Len(wire')].event = "send_direct_message"
                   /\ wire'[Len(wire')].data.recipient = call.recipient
                   /\ wire'[Len(wire')].data.timestamp = call.timestamp
                   /\ messages'[u] = Append(messages[u],
                          [username |-> call.username, message |-> call.message,
                           timestamp |-> call.timestamp, isDM |-> TRUE,
                           recipient |-> call.recipient])
         /\ \A timestamp \in 1..nCalls' :
               /\ Cardinality(DirectEmits(u, timestamp)') <= 1
               /\ Cardinality(Echoes(u, timestamp)')
                      = Cardinality(DirectEmits(u, timestamp)')
               /\ \A call \in sends'[u] :
                     call.timestamp = timestamp => DirectEmits(u, timestamp)' = {}]_vars

\* a hook has made two directed sends, one that took the encrypted path and
\* one that fell back, and each has its envelope and its echo
C26_Witness ==
    \E u \in Users :
        /\ sends[u] = {}
        /\ \E r \in returned : r.by = u /\ r.path = "encrypted"
        /\ \E r \in returned : r.by = u /\ r.path # "encrypted"
        /\ \A r \in returned :
              r.by = u => /\ Cardinality(DirectEmits(u, r.call)) = 1
                          /\ Cardinality(Echoes(u, r.call)) = 1

\* C27: the directed sends of a hook keep the order of their calls.  The
\* envelopes a hook has emitted are on the wire in the order of the calls,
\* their echoes are in the log in that order, and no call is still
\* suspended when a call made after it has emitted its envelope.
C27_CallOrder ==
    \A u \in Users :
        /\ \A i, j \in EmittedBy(u, "send_direct_message") :
              i < j => wire[i].data.timestamp < wire[j].data.timestamp
        /\ \A call \in sends[u] : \A i \in EmittedBy(u, "send_direct_message") :
              wire[i].data.timestamp < call.timestamp
        /\ \A i, j \in 1..Len(messages[u]) :
              i < j => messages[u][i].timestamp < messages[u][j].timestamp

(***************************************************************************)
(* lib/keyStore.ts: saveKeyPair as the two transactions it is made of.     *)
(* savePublicKey and savePrivateKey each open the database and put one     *)
(* entry in a transaction of their own; Promise.all awaits both            *)
(* (TornSpec).                                                             *)
(***************************************************************************)
\* savePublicKey(publicKey) / savePrivateKey(privateKey): the store after
\* the put
savePublicKey(store, user, publicKey) ==
    [store EXCEPT ![getPublicKeyId(user)] = publicKey]

savePrivateKey(store, user, privateKey) ==
    [store EXCEPT ![getPrivateKeyId(user)] = privateKey]

\* the halves of a pair, and where runAllTests stands once the put of a
\* half has settled: awaiting the other put, or past saveKeyPair, which has
\* thrown when a put was rejected
Halves == {"public", "private"}

AfterPut(run, half, rejected) ==
    CASE run = "saveKeyPair" /\ half = "public" ->
             IF rejected THEN "savePrivateKey, rejected" ELSE "savePrivateKey"
      [] run = "saveKeyPair" /\ half = "private" ->
             IF rejected THEN "savePublicKey, rejected" ELSE "savePublicKey"
      [] run \in {"savePrivateKey", "savePublicKey"} ->
             IF rejected THEN "idle" ELSE "getKeyPair"
      [] OTHER -> "idle"

\* the put of one half of the pair of runAllTests settles: rejected tells
\* that the transaction failed, which leaves the entry as it was
runAllTestsPut(u, half, rejected) ==
    /\ ~page[u].check
    /\ \/ page[u].run = "saveKeyPair"
       \/ half = "public"
             /\ page[u].run \in {"savePublicKey", "savePublicKey, rejected"}
       \/ half = "private"
             /\ page[u].run \in {"savePrivateKey", "savePrivateKey, rejected"}
    /\ page' = [page EXCEPT ![u] =
                   [@ EXCEPT !.run = AfterPut(page[u].run, half, rejected)]]
    /\ keyStore' =
           IF rejected THEN keyStore
           ELSE IF half = "public"
           THEN [keyStore EXCEPT ![u] =
                    savePublicKey(@, getCurrentUsername(u), page[u].keys.publicKey)]
           ELSE [keyStore EXCEPT ![u] =
                    savePrivateKey(@, getCurrentUsername(u), page[u].keys.privateKey)]
    /\ UNCHANGED <<authStorage, directory, nKeys, hookVars, test, requests,
                   recipientKeyCache, peerVars>>

TornNext ==
    \/ \E u \in Users, uploaded \in BOOLEAN : handleSubmit(u, uploaded)
    \/ \E u \in Users, name \in Users \cup {""} : Mount(u, name)
    \/ \E u \in Users : UsernameChange(u)
    \/ \E u \in Users, rejected \in BOOLEAN : loadPrivateKey(u, rejected)
    \/ \E u \in Users : E2ETestPage(u)
    \/ \E u \in Users, rejected \in BOOLEAN : checkE2EStatus(u, rejected)
    \/ \E u \in Users : runAllTests(u)
    \/ \E u \in Users, half \in Halves, rejected \in BOOLEAN :
            runAllTestsPut(u, half, rejected)
    \/ \E u \in Users : runAllTestsRetrieved(u)
    \/ \E u \in Users, uploaded \in BOOLEAN : runAllTestsUploaded(u, uploaded)
    \/ \E u \in Users : handleClearKeys(u)

TornSpec == Init /\ [][TornNext]_vars

\* the pairs generateKeyPair may hand out
KeyPairs == {generateKeyPair(k) : k \in 1..MaxKeyPairs}

\* C28: the stored pair is never torn.  In every state of the key store of
\* a device, for every identity, a public key and a private key that are
\* both stored are the halves of one generated pair, and so is every pair
\* that getKeyPair() has returned to the e2e-test page.
C28_NeverTorn ==
    \A u \in Users :
        /\ \A id \in Identities :
              StoredKeyPair(keyStore[u], id) # Undefined =>
                  StoredKeyPair(keyStore[u], id) \in KeyPairs
        /\ page[u].localKeys # Undefined => page[u].localKeys \in KeyPairs

(***************************************************************************)
(* The client with a key store that answers: every getPrivateKey() of a    *)
(* hook settles, with the key, with null or with an error (LiveSpec).      *)
(***************************************************************************)
LiveSpec ==
    /\ Init
    /\ [][Next]_vars
    /\ \A u \in Users : WF_vars(\E rejected \in BOOLEAN : loadPrivateKey(u, rejected))

\* C30: the readiness leaves 'loading'.  Once a hook is rendered with a
\* username that is not empty, its e2eStatus eventually is 'enabled' or
\* 'disabled', whether getPrivateKey() returns a key, returns null or fails.
C30_LeavesLoading ==
    \A u \in Users :
        (socketRef[u] /\ username[u] # "")
            ~> (e2eStatus[u] \in {"enabled", "disabled"})

\* a hook with a username whose read of the key store failed: the store
\* holds the key of the user, and the load has ended in 'disabled'
C30_Witness ==
    \E u \in Users :
        /\ socketRef[u]
        /\ username[u] # ""
        /\ loads[u] = 0
        /\ getPrivateKey(u) # Undefined
        /\ e2eStatus[u] = "disabled"

====
